---- MODULE Spec2Model ----
(***************************************************************************)
(* State-machine model of the decode pipeline of runtime/core/pipeline.cc: *)
(* the four Decode* entry points, DecodeLoop, DecodeOneStep::Run and       *)
(* ShouldStop, together with the collaborators they call (executor,        *)
(* tokenizer, stop token detector, observer, cancel flag).                 *)
(***************************************************************************)
EXTENDS Integers, Sequences, FiniteSets, TLC

(***************************************************************************)
(* Bounds of the model.                                                    *)
(***************************************************************************)
MaxCandidates == 2
MaxDecodedTokens == 4
MaxNumTokens == 4
MaxK == 2

(***************************************************************************)
(* Program constants.                                                      *)
(***************************************************************************)
kDefaultMaxNumTokens == 4096
Meta == 9601
Space == 32

(***************************************************************************)
(* Vocabulary of the modelled tokenizer and the configured stop sequences. *)
(* 2 is the end-of-sequence id, 8 9 a two-token stop sequence, 7 a plain   *)
(* token and 6 a byte-fragment token whose text is not valid on its own.   *)
(***************************************************************************)
Tokens == {2, 6, 7, 8, 9}
StopSeqs == {<<2>>, <<8, 9>>}
IncompleteTokens == {6}
MetaTokens == {8}

Entries == {"Decode", "DecodeStreaming", "DecodeCustomSampling",
            "DecodeCustomSamplingStreaming"}
StepErrors == {"ExecutorError", "SamplerError", "TokenizerError", "DetectorError"}
StepAborts == {"TokenIdsToTextsError", "GetCurrentStepError"}

RECURSIVE Flatten(_)
Flatten(ss) == IF ss = <<>> THEN <<>> ELSE Head(ss) \o Flatten(Tail(ss))

(***************************************************************************)
(* Tokenizer.  A token occurrence is <<step, id>>: the id the executor     *)
(* produced together with the decode step that produced it.  The text of   *)
(* an id vector is the sequence of the symbols of its tokens, so text      *)
(* keeps track of the tokens it was decoded from.                          *)
(***************************************************************************)
TokenText(occ) ==
    IF occ[2] \in MetaTokens THEN << <<occ[1], Meta>>, occ >> ELSE << occ >>

MergeTokenIds(partial, next) == partial \o next

RECURSIVE TokenIdsToTexts(_)
TokenIdsToTexts(ids) ==
    IF ids = <<>> THEN <<>> ELSE TokenText(Head(ids)) \o TokenIdsToTexts(Tail(ids))

IsIncompleteBpeSequence(ids) ==
    ids # <<>> /\ ids[Len(ids)][2] \in IncompleteTokens

(***************************************************************************)
(* absl::StrReplaceAll(output_text, {{"▁", " "}}).                         *)
(***************************************************************************)
StrReplaceAll(text) ==
    [k \in 1..Len(text) |->
        IF text[k][2] = Meta THEN <<text[k][1], Space>> ELSE text[k]]

(***************************************************************************)
(* StopTokenDetector, one state per candidate: the longest suffix of the   *)
(* ids seen so far that is a prefix of a stop sequence, and whether a stop *)
(* sequence has been completed.                                            *)
(***************************************************************************)
IsStopPrefix(s) ==
    \E q \in StopSeqs : Len(s) <= Len(q) /\ SubSeq(q, 1, Len(s)) = s

Suffixes(s) == {SubSeq(s, k, Len(s)) : k \in 1..(Len(s) + 1)}

LongestOf(S) == CHOOSE x \in S : \A y \in S : Len(y) <= Len(x)

DetectorInit == [matched |-> <<>>, found |-> FALSE]

ProcessToken(d, tok) ==
    IF d.found THEN d
    ELSE LET h == Append(d.matched, tok)
             complete == Suffixes(h) \cap StopSeqs
         IN  IF complete # {}
             THEN [matched |-> LongestOf(complete), found |-> TRUE]
             ELSE [matched |-> LongestOf({x \in Suffixes(h) : IsStopPrefix(x)}),
                   found |-> FALSE]

MaxPartialStopTokenLength(d) == Len(d.matched)

AllDone(det) == \A i \in DOMAIN det : det[i].found

(***************************************************************************)
(* ShouldStop, with the condition that ends the loop named.                *)
(***************************************************************************)
ShouldStop_CacheOneLate(hit_stop_tokens, benchmark_decode_token_count, num_decoded_steps, current_step, max_num_tokens) ==
    IF hit_stop_tokens /\ benchmark_decode_token_count = 0 THEN TRUE
    ELSE IF benchmark_decode_token_count > 0
            /\ num_decoded_steps >= benchmark_decode_token_count THEN TRUE
    ELSE IF current_step > max_num_tokens THEN TRUE
    ELSE FALSE

ShouldStop_IgnoresStops(hit_stop_tokens, benchmark_decode_token_count, num_decoded_steps, current_step, max_num_tokens) ==
    IF benchmark_decode_token_count > 0
            /\ num_decoded_steps >= benchmark_decode_token_count THEN TRUE
    ELSE IF current_step >= max_num_tokens THEN TRUE
    ELSE FALSE

ShouldStop_CapOneEarly(hit_stop_tokens, benchmark_decode_token_count, num_decoded_steps, current_step, max_num_tokens) ==
    IF hit_stop_tokens /\ benchmark_decode_token_count = 0 THEN TRUE
    ELSE IF benchmark_decode_token_count > 0
            /\ num_decoded_steps + 1 >= benchmark_decode_token_count THEN TRUE
    ELSE IF current_step >= max_num_tokens THEN TRUE
    ELSE FALSE

ShouldStop(hit_stop_tokens, benchmark_decode_token_count, num_decoded_steps, current_step, max_num_tokens) ==
    IF hit_stop_tokens /\ benchmark_decode_token_count = 0 THEN TRUE
    ELSE IF benchmark_decode_token_count > 0
            /\ num_decoded_steps >= benchmark_decode_token_count THEN TRUE
    ELSE IF current_step >= max_num_tokens THEN TRUE
    ELSE FALSE

StopCause(hit_stop_tokens, benchmark_decode_token_count, num_decoded_steps, current_step, max_num_tokens) ==
    IF hit_stop_tokens /\ benchmark_decode_token_count = 0 THEN "stops"
    ELSE IF benchmark_decode_token_count > 0
            /\ num_decoded_steps >= benchmark_decode_token_count THEN "cap"
    ELSE IF current_step >= max_num_tokens THEN "cache"
    ELSE "none"

TryGetMaxNumTokens(settings) ==
    IF ~settings.ok THEN kDefaultMaxNumTokens ELSE settings.max_num_tokens


(***************************************************************************)
(* Scores are rationals <<numerator, denominator>>; the sampler's score of *)
(* a token is a function of the token.  <<-1, 0>> stands for -infinity.    *)
(***************************************************************************)
NegInf == <<-1, 0>>
ScoreOf(tok) == <<tok, 1>>

(***************************************************************************)
(* DecodeOneStep::Run, the part of the loop over the candidates, for one   *)
(* candidate: bpe is bpe_partial_token_ids_[i], pend pending_stop_tokens_  *)
(* [i], d the detector state of i after ProcessTokens, ids the merged ids. *)
(***************************************************************************)
PushPending_Prepends(pend, text, max_length) ==
    IF max_length > 0 THEN <<text>> \o pend ELSE pend

PushPending(pend, text, max_length) ==
    IF max_length > 0 THEN Append(pend, text) ELSE pend

NumReleased_KeepsOneLess(size, max_length) ==
    IF max_length > 0 /\ size >= max_length THEN size - max_length + 1
    ELSE IF size > max_length THEN size - max_length ELSE 0

NumReleased_KeepsOneMore(size, max_length) ==
    IF size > max_length + 1 THEN size - max_length - 1 ELSE 0

NumReleased(size, max_length) ==
    IF size > max_length THEN size - max_length ELSE 0

ClearedBpe_Forgotten(bpe) == bpe

ClearedBpe(bpe) == <<>>

RunCandidate_KeepsNewIdsOnly(bpe, pend, d, ids) ==
    LET text == TokenIdsToTexts(ids) IN
    IF IsIncompleteBpeSequence(ids)
    THEN [bpe |-> << ids[Len(ids)] >>, pending |-> pend, text |-> <<>>, incomplete |-> TRUE]
    ELSE IF ~d.found
    THEN LET max_length == MaxPartialStopTokenLength(d)
             q == PushPending(pend, text, max_length)
             n == NumReleased(Len(q), max_length)
             released == Flatten(SubSeq(q, 1, n))
         IN  [bpe |-> ClearedBpe(bpe),
              pending |-> SubSeq(q, n + 1, Len(q)),
              text |-> IF max_length = 0 THEN released \o text ELSE released,
              incomplete |-> FALSE]
    ELSE [bpe |-> bpe, pending |-> pend, text |-> <<>>, incomplete |-> FALSE]

RunCandidate_ReleasesWhenFound(bpe, pend, d, ids) ==
    LET text == TokenIdsToTexts(ids) IN
    IF IsIncompleteBpeSequence(ids)
    THEN [bpe |-> ids, pending |-> pend, text |-> <<>>, incomplete |-> TRUE]
    ELSE IF ~d.found
    THEN LET max_length == MaxPartialStopTokenLength(d)
             q == PushPending(pend, text, max_length)
             n == NumReleased(Len(q), max_length)
             released == Flatten(SubSeq(q, 1, n))
         IN  [bpe |-> ClearedBpe(bpe),
              pending |-> SubSeq(q, n + 1, Len(q)),
              text |-> IF max_length = 0 THEN released \o text ELSE released,
              incomplete |-> FALSE]
    ELSE [bpe |-> bpe, pending |-> pend, text |-> text, incomplete |-> FALSE]

RunCandidate_ReleasesAndKeeps(bpe, pend, d, ids) ==
    LET text == TokenIdsToTexts(ids) IN
    IF IsIncompleteBpeSequence(ids)
    THEN [bpe |-> ids, pending |-> pend, text |-> <<>>, incomplete |-> TRUE]
    ELSE IF ~d.found
    THEN LET max_length == MaxPartialStopTokenLength(d)
             q == PushPending(pend, text, max_length)
             n == NumReleased(Len(q), max_length)
             released == Flatten(SubSeq(q, 1, n))
         IN  [bpe |-> ClearedBpe(bpe),
              pending |-> q,
              text |-> IF max_length = 0 THEN released \o text ELSE released,
              incomplete |-> FALSE]
    ELSE [bpe |-> bpe, pending |-> pend, text |-> <<>>, incomplete |-> FALSE]

RunCandidate(bpe, pend, d, ids) ==
    LET text == TokenIdsToTexts(ids) IN
    IF IsIncompleteBpeSequence(ids)
    THEN [bpe |-> ids, pending |-> pend, text |-> <<>>, incomplete |-> TRUE]
    ELSE IF ~d.found
    THEN LET max_length == MaxPartialStopTokenLength(d)
             q == PushPending(pend, text, max_length)
             n == NumReleased(Len(q), max_length)
             released == Flatten(SubSeq(q, 1, n))
         IN  [bpe |-> ClearedBpe(bpe),
              pending |-> SubSeq(q, n + 1, Len(q)),
              text |-> IF max_length = 0 THEN released \o text ELSE released,
              incomplete |-> FALSE]
    ELSE [bpe |-> bpe, pending |-> pend, text |-> <<>>, incomplete |-> FALSE]

(***************************************************************************)
(* DecodeOneStep::Run: toks[i] is the id the executor (or the sampler)     *)
(* produced for candidate i in decode step number step.                    *)
(***************************************************************************)
Run(r, step, toks) ==
    LET C == DOMAIN toks
        ids == [i \in C |-> MergeTokenIds(r.bpe[i], << <<step, toks[i]>> >>)]
        det == [i \in C |-> ProcessToken(r.det[i], toks[i])]
        c == [i \in C |-> RunCandidate(r.bpe[i], r.pending[i], det[i], ids[i])]
    IN  [bpe |-> [i \in C |-> c[i].bpe],
         pending |-> [i \in C |-> c[i].pending],
         det |-> det,
         result_text |-> [i \in C |-> c[i].text],
         incomplete |-> [i \in C |-> c[i].incomplete],
         scores |-> [i \in C |-> ScoreOf(toks[i])],
         all_done |-> AllDone(det)]

(***************************************************************************)
(* The arguments the four entry points hand to DecodeLoop.                 *)
(***************************************************************************)
IsStreamingEntry(entry) ==
    entry \in {"DecodeStreaming", "DecodeCustomSamplingStreaming"}

IsCustomSampling(entry) ==
    entry \in {"DecodeCustomSampling", "DecodeCustomSamplingStreaming"}

NumCandidates(c) == IF IsCustomSampling(c.entry) THEN c.num_output_candidates ELSE 1

StepErrorsOf(c) ==
    {e \in StepErrors : e = "SamplerError" => IsCustomSampling(c.entry)}

BenchmarkDecodeTokenCount(c) == IF c.has_benchmark THEN c.num_decode_tokens ELSE 0

(***************************************************************************)
(* Observer events.                                                        *)
(***************************************************************************)
OnNext(texts, scores) ==
    [type |-> "next", texts |-> texts, scores |-> scores, status |-> "OK"]
OnError(status) ==
    [type |-> "error", texts |-> <<>>, scores |-> <<>>, status |-> status]
OnDone == [type |-> "done", texts |-> <<>>, scores |-> <<>>, status |-> "OK"]

kCancelled == "Cancelled: Process cancelled."
kKvCache == "Internal: Maximum kv-cache size reached."
kNullObserver == "InvalidArgument: Observer must not be null for streaming."
kTurnStart == "Internal: decode turn already started."

(***************************************************************************)
(* BenchmarkInfo.  Of the caller's object a run keeps whether a decode     *)
(* turn is open (turn_open), the calls of TimeDecodeTurnStart and          *)
(* TimeDecodeTurnEnd made on it with their argument (turn_log), and the    *)
(* number of calls of TimeMarkDelta per span (marks).  benchmark_info_ is  *)
(* the member of DecodeOneStep, initialized from the caller's object.      *)
(***************************************************************************)
NoMarks == [executor_decode |-> 0, sampling |-> 0, executor_decode_and_sample |-> 0]

NoBenchmarkInfo == [has_value |-> FALSE, turn_log |-> <<>>, marks |-> NoMarks]

TimeDecodeTurnStart(r) == [r EXCEPT !.turn_log = Append(@, <<"TimeDecodeTurnStart", 0>>)]

TimeDecodeTurnEnd_CountsSteps(r, num_decode_steps, num_output_candidates) ==
    [r EXCEPT !.turn_log = Append(@, <<"TimeDecodeTurnEnd", num_decode_steps>>)]

TimeDecodeTurnEnd(r, num_decode_steps, num_output_candidates) ==
    [r EXCEPT !.turn_log =
        Append(@, <<"TimeDecodeTurnEnd", num_decode_steps * num_output_candidates>>)]

(***************************************************************************)
(* The calls of TimeMarkDelta of one DecodeAndSample that ends with        *)
(* status: each span is marked before and after its call, and a failing    *)
(* call returns before the second mark.                                    *)
(***************************************************************************)
StepMarks(c, status) ==
    IF ~c.has_benchmark THEN NoMarks
    ELSE IF IsCustomSampling(c.entry)
    THEN [executor_decode |-> IF status = "ExecutorError" THEN 1 ELSE 2,
          sampling |-> IF status = "ExecutorError" THEN 0
                       ELSE IF status = "SamplerError" THEN 1 ELSE 2,
          executor_decode_and_sample |-> 0]
    ELSE [executor_decode |-> 0,
          sampling |-> 0,
          executor_decode_and_sample |-> IF status = "ExecutorError" THEN 1 ELSE 2]

AddMarks(marks, added) ==
    [executor_decode |-> marks.executor_decode + added.executor_decode,
     sampling |-> marks.sampling + added.sampling,
     executor_decode_and_sample |->
         marks.executor_decode_and_sample + added.executor_decode_and_sample]

TimeMarkDelta_OnCallers(r, added) == [r EXCEPT !.marks = AddMarks(@, added)]

TimeMarkDelta(r, added) == [r EXCEPT !.benchmark_info_.marks = AddMarks(@, added)]

(***************************************************************************)
(* The constructor of DecodeOneStep: its members benchmark_info_ and       *)
(* stop_token_detector_ are initialized from the caller's objects.         *)
(***************************************************************************)
DecodeOneStep_FreshDetector(c, r) ==
    [r EXCEPT !.benchmark_info_ =
        [has_value |-> c.has_benchmark, turn_log |-> r.turn_log, marks |-> r.marks],
              !.det = [i \in DOMAIN @ |-> DetectorInit]]

DecodeOneStep(c, r) ==
    [r EXCEPT !.benchmark_info_ =
        [has_value |-> c.has_benchmark, turn_log |-> r.turn_log, marks |-> r.marks],
              !.det = r.stop_token_detector]

(***************************************************************************)
(* The state of one call of an entry point before its first statement.     *)
(* The last seven fields are history the code does not keep: the status of *)
(* the collaborator call that failed, the executor's current step at       *)
(* entry, the number of steps in which some candidate had                  *)
(* text, the step of each on_next event, and with external sampling, per   *)
(* candidate, the sum of the scores of all steps, the sum of the scores of *)
(* the steps in which the candidate had text, and the number of the        *)
(* latter.                                                                 *)
(***************************************************************************)
NewRun(c, current_step, turn_open) ==
    LET C == 1..NumCandidates(c) IN
    [pc |-> "entry",
     num_decode_steps |-> 0,
     iterations |-> 0,
     started |-> 0,
     current_step |-> current_step,
     turn_open |-> turn_open,
     bpe |-> [i \in C |-> <<>>],
     pending |-> [i \in C |-> <<>>],
     det |-> [i \in C |-> DetectorInit],
     result_text |-> [i \in C |-> <<>>],
     incomplete |-> [i \in C |-> FALSE],
     found_at |-> [i \in C |-> 0],
     texts |-> [i \in C |-> <<>>],
     accumulated_scores |-> [i \in C |-> 0],
     num_decoded_tokens |-> [i \in C |-> 0],
     scores |-> [i \in C |-> NegInf],
     events |-> <<>>,
     cause |-> "none",
     ret |-> "none",
     failed |-> "none",
     entry_step |-> current_step,
     output_steps |-> 0,
     next_steps |-> <<>>,
     step_scores |-> [i \in C |-> 0],
     text_scores |-> [i \in C |-> 0],
     text_steps |-> [i \in C |-> 0],
     turn_log |-> <<>>,
     marks |-> NoMarks,
     benchmark_info_ |-> NoBenchmarkInfo,
     stop_token_detector |-> [i \in C |-> DetectorInit]]

(***************************************************************************)
(* The same call with a StopTokenDetector the caller has used before.      *)
(***************************************************************************)
DetectorStates ==
    {DetectorInit, [matched |-> <<8>>, found |-> FALSE], [matched |-> <<2>>, found |-> TRUE]}

NewRunWith(c, current_step, stop_token_detector) ==
    [NewRun(c, current_step, FALSE) EXCEPT !.stop_token_detector = stop_token_detector]

Return(r, status) == [r EXCEPT !.pc = "returned", !.ret = status]

(***************************************************************************)
(* An entry point up to the first iteration of the loop of DecodeLoop.     *)
(***************************************************************************)
Enter_BenchmarkFirst(c, r) ==
    LET started == IF c.has_benchmark THEN TimeDecodeTurnStart(r) ELSE r IN
    IF c.has_benchmark /\ r.turn_open
    THEN Return(started, kTurnStart)
    ELSE IF IsStreamingEntry(c.entry) /\ ~c.observer
    THEN Return([started EXCEPT !.turn_open = IF c.has_benchmark THEN TRUE ELSE @],
                kNullObserver)
    ELSE DecodeOneStep(c, [started EXCEPT !.pc = "top",
                   !.turn_open = IF c.has_benchmark THEN TRUE ELSE @])

Enter(c, r) ==
    LET started == IF c.has_benchmark THEN TimeDecodeTurnStart(r) ELSE r IN
    IF IsStreamingEntry(c.entry) /\ ~c.observer
    THEN Return(r, kNullObserver)
    ELSE IF c.has_benchmark /\ r.turn_open
    THEN Return(started, kTurnStart)
    ELSE DecodeOneStep(c, [started EXCEPT !.pc = "top",
                   !.turn_open = IF c.has_benchmark THEN TRUE ELSE @])

(***************************************************************************)
(* The cancellation check at the top of an iteration.                      *)
(***************************************************************************)
CheckCancelled_NoReturn(c, r, flag) ==
    IF c.has_cancelled /\ flag
    THEN [r EXCEPT !.events =
                    IF IsStreamingEntry(c.entry)
                    THEN Append(@, OnError(kCancelled)) ELSE @,
                   !.iterations = @ + 1,
                   !.pc = "checked"]
    ELSE [r EXCEPT !.pc = "checked", !.iterations = @ + 1]

CheckCancelled_StreamingOnly(c, r, flag) ==
    IF c.has_cancelled /\ flag /\ IsStreamingEntry(c.entry)
    THEN Return([r EXCEPT !.events = Append(@, OnError(kCancelled)),
                          !.iterations = @ + 1,
                          !.cause = "cancel"],
                kCancelled)
    ELSE [r EXCEPT !.pc = "checked", !.iterations = @ + 1]

CheckCancelled_EvaluatesShouldStop(c, r, flag) ==
    IF c.has_cancelled /\ flag
    THEN Return([r EXCEPT !.events =
                    IF IsStreamingEntry(c.entry)
                    THEN Append(@, OnError(kCancelled)) ELSE @,
                          !.iterations = @ + 1,
                          !.cause = "cancel"],
                kCancelled)
    ELSE IF ShouldStop(AllDone(r.det), BenchmarkDecodeTokenCount(c),
                       r.num_decode_steps, r.current_step,
                       TryGetMaxNumTokens(c.settings))
    THEN Return([r EXCEPT !.iterations = @ + 1,
                          !.cause = StopCause(AllDone(r.det),
                                              BenchmarkDecodeTokenCount(c),
                                              r.num_decode_steps, r.current_step,
                                              TryGetMaxNumTokens(c.settings))],
                "OK")
    ELSE [r EXCEPT !.pc = "checked", !.iterations = @ + 1]

CheckCancelled(c, r, flag) ==
    IF c.has_cancelled /\ flag
    THEN Return([r EXCEPT !.events =
                    IF IsStreamingEntry(c.entry)
                    THEN Append(@, OnError(kCancelled)) ELSE @,
                          !.iterations = @ + 1,
                          !.cause = "cancel"],
                kCancelled)
    ELSE [r EXCEPT !.pc = "checked", !.iterations = @ + 1]

(***************************************************************************)
(* The call of DecodeOneStep::Run: the executor call is in flight.         *)
(***************************************************************************)
StartStep(r) == [r EXCEPT !.pc = "inflight", !.started = @ + 1]

(***************************************************************************)
(* A failed DecodeOneStep::Run.                                            *)
(***************************************************************************)
StepFailed_Continue(c, r, status) ==
    [r EXCEPT !.events =
                IF IsStreamingEntry(c.entry) THEN Append(@, OnError(status)) ELSE @,
              !.pc = "top"]

StepFailed(c, r, status) ==
    Return([TimeMarkDelta(r, StepMarks(c, status)) EXCEPT !.events =
                IF IsStreamingEntry(c.entry) THEN Append(@, OnError(status)) ELSE @,
                     !.current_step =
                         IF status = "ExecutorError" THEN @ ELSE @ + 1,
                     !.cause = "error",
                     !.failed = status],
           status)

(***************************************************************************)
(* A decode step that ends in StatusOr::value() of a failed result: the    *)
(* call does not return (the process is terminated, or an exception leaves *)
(* the entry point).  The objects of the call are gone: what is left is    *)
(* what the observer received, the executor's step and the counters.       *)
(***************************************************************************)
Aborted(r, status) ==
    [r EXCEPT !.pc = "aborted", !.cause = "error", !.failed = status,
              !.bpe = [i \in DOMAIN @ |-> <<>>],
              !.pending = [i \in DOMAIN @ |-> <<>>],
              !.det = [i \in DOMAIN @ |-> DetectorInit],
              !.result_text = [i \in DOMAIN @ |-> <<>>],
              !.incomplete = [i \in DOMAIN @ |-> FALSE],
              !.found_at = [i \in DOMAIN @ |-> 0],
              !.texts = [i \in DOMAIN @ |-> <<>>],
              !.accumulated_scores = [i \in DOMAIN @ |-> 0],
              !.num_decoded_tokens = [i \in DOMAIN @ |-> 0],
              !.step_scores = [i \in DOMAIN @ |-> 0],
              !.text_scores = [i \in DOMAIN @ |-> 0],
              !.text_steps = [i \in DOMAIN @ |-> 0],
              !.output_steps = 0,
              !.benchmark_info_ = NoBenchmarkInfo]


(***************************************************************************)
(* The end of DecodeLoop after the loop was left through ShouldStop.       *)
(***************************************************************************)
kTurnEnd == "Internal: decode turn not started."

FinalEvent(current_step, max_num_tokens) ==
    IF current_step >= max_num_tokens THEN OnError(kKvCache) ELSE OnDone

FinalScores_MeanOverAllSteps(r) ==
    [j \in DOMAIN r.scores |->
        IF r.num_decoded_tokens[j] > 0
        THEN <<r.accumulated_scores[j], r.num_decode_steps>>
        ELSE NegInf]

FinalScores(r) ==
    [j \in DOMAIN r.scores |->
        IF r.num_decoded_tokens[j] > 0
        THEN <<r.accumulated_scores[j], r.num_decoded_tokens[j]>>
        ELSE NegInf]

Finish(c, r) ==
    LET ended == IF c.has_benchmark
                 THEN TimeDecodeTurnEnd(r, r.num_decode_steps, NumCandidates(c))
                 ELSE r
    IN
    IF c.has_benchmark /\ ~r.turn_open
    THEN Return(ended, kTurnEnd)
    ELSE LET b == [ended EXCEPT !.turn_open = IF c.has_benchmark THEN FALSE ELSE @] IN
         IF IsStreamingEntry(c.entry)
         THEN Return([b EXCEPT !.events =
                          Append(@, FinalEvent(b.current_step,
                                               TryGetMaxNumTokens(c.settings))),
                               !.texts = <<>>,
                               !.scores = <<>>],
                     "OK")
         ELSE IF IsCustomSampling(c.entry)
         THEN Return([b EXCEPT !.scores = FinalScores(b)], "OK")
         ELSE Return(b, "OK")

(***************************************************************************)
(* One iteration of the loop of DecodeLoop whose DecodeOneStep::Run        *)
(* succeeds: the step, the delivery of its output, ShouldStop and, when    *)
(* the loop is left, the rest of DecodeLoop.                               *)
(***************************************************************************)
AppendText_Overwrites(final, result_text) == result_text

AppendText(final, result_text) == final \o result_text

EmitsOnNext_WithoutUpdates(is_streaming, any_updates, all_done) ==
    is_streaming /\ ~all_done

EmitsOnNext(is_streaming, any_updates, all_done) ==
    is_streaming /\ any_updates /\ ~all_done

StepDelivered(c, r, toks) ==
    LET C == DOMAIN toks
        s == Run(r, r.started, toks)
        is_streaming == IsStreamingEntry(c.entry)
        is_custom_sampling == IsCustomSampling(c.entry)
        has_text == [j \in C |-> s.result_text[j] # <<>>]
        any_updates == \E j \in C : has_text[j]
        result_text == [j \in C |-> StrReplaceAll(s.result_text[j])]
        step_responses ==
            OnNext([j \in C |-> IF has_text[j] THEN result_text[j] ELSE <<>>],
                   [j \in C |-> IF has_text[j] /\ is_custom_sampling
                                THEN s.scores[j] ELSE NegInf])
        num_decode_steps == r.num_decode_steps + 1
        current_step == r.current_step + 1
        max_num_tokens == TryGetMaxNumTokens(c.settings)
        after ==
            [TimeMarkDelta(r, StepMarks(c, "OK")) EXCEPT
                !.bpe = s.bpe,
                !.pending = s.pending,
                !.det = s.det,
                !.result_text = s.result_text,
                !.incomplete = s.incomplete,
                !.found_at = [j \in C |->
                    IF @[j] = 0 /\ s.det[j].found THEN r.started ELSE @[j]],
                !.num_decode_steps = num_decode_steps,
                !.current_step = current_step,
                !.texts = [j \in C |->
                    IF has_text[j] /\ ~is_streaming
                    THEN AppendText(@[j], result_text[j]) ELSE @[j]],
                !.accumulated_scores = [j \in C |->
                    IF has_text[j] /\ ~is_streaming /\ is_custom_sampling
                    THEN @[j] + s.scores[j][1] ELSE @[j]],
                !.num_decoded_tokens = [j \in C |->
                    IF has_text[j] /\ ~is_streaming /\ is_custom_sampling
                    THEN @[j] + 1 ELSE @[j]],
                !.events =
                    IF EmitsOnNext(is_streaming, any_updates, s.all_done)
                    THEN Append(@, step_responses) ELSE @,
                !.cause = StopCause(s.all_done, BenchmarkDecodeTokenCount(c),
                                    num_decode_steps, current_step, max_num_tokens),
                !.output_steps = IF any_updates THEN @ + 1 ELSE @,
                !.next_steps =
                    IF EmitsOnNext(is_streaming, any_updates, s.all_done)
                    THEN Append(@, r.started) ELSE @,
                !.step_scores = [j \in C |->
                    IF is_custom_sampling THEN @[j] + s.scores[j][1] ELSE @[j]],
                !.text_scores = [j \in C |->
                    IF is_custom_sampling /\ s.result_text[j] # <<>>
                    THEN @[j] + s.scores[j][1] ELSE @[j]],
                !.text_steps = [j \in C |->
                    IF is_custom_sampling /\ s.result_text[j] # <<>>
                    THEN @[j] + 1 ELSE @[j]]]
    IN  after

Iterate(c, r, toks) ==
    LET after == StepDelivered(c, r, toks) IN
    IF ShouldStop(AllDone(after.det), BenchmarkDecodeTokenCount(c),
                  after.num_decode_steps, after.current_step,
                  TryGetMaxNumTokens(c.settings))
    THEN Finish(c, after)
    ELSE [after EXCEPT !.pc = "top"]

(***************************************************************************)
(* An iteration in which TokenIdsToTexts fails (inside DecodeOneStep::Run, *)
(* after the executor call), or in which GetCurrentStep fails when         *)
(* ShouldStop's arguments are evaluated (after the step's delivery).       *)
(***************************************************************************)
StepAborted(c, r, toks, status) ==
    IF status = "TokenIdsToTextsError"
    THEN Aborted([TimeMarkDelta(r, StepMarks(c, "OK")) EXCEPT !.current_step = @ + 1],
                 status)
    ELSE Aborted(StepDelivered(c, r, toks), status)

(***************************************************************************)
(* The calls the model explores.  The executor's budget is MaxNumTokens,   *)
(* or 10 with a prompt of 3 tokens already processed in a call of Decode   *)
(* (the worked example of spec.md section 8), or unknown (settings not     *)
(* available).                                                             *)
(***************************************************************************)
Configs ==
    {c \in [entry : Entries,
            observer : BOOLEAN,
            num_output_candidates : 1..MaxCandidates,
            has_benchmark : BOOLEAN,
            num_decode_tokens : 0..MaxK,
            settings : [ok : BOOLEAN, max_num_tokens : {0, MaxNumTokens, 10}],
            has_cancelled : BOOLEAN] :
        /\ (~IsStreamingEntry(c.entry) => ~c.observer)
        /\ (~IsCustomSampling(c.entry) => c.num_output_candidates = 1)
        /\ (~c.has_benchmark => c.num_decode_tokens = 0)
        /\ (c.settings.ok <=> c.settings.max_num_tokens # 0)
        /\ (c.settings.max_num_tokens = 10 => c.entry = "Decode")}

StartSteps(c) ==
    IF c.settings.ok /\ c.settings.max_num_tokens = MaxNumTokens
    THEN {n \in 0..(MaxNumTokens + 1) :
            NumCandidates(c) * (MaxNumTokens - n) <= MaxDecodedTokens}
    ELSE IF c.settings.ok THEN {3}
    ELSE {0}

WithinBudget(c, r) == (r.started + 1) * NumCandidates(c) <= MaxDecodedTokens

(***************************************************************************)
(* Prefill.  p is the state of one call: the prompt's token ids, the       *)
(* executor's settings, the caller's wait_for_completion, whether a        *)
(* benchmark is present and has a prefill turn open, and log, the calls    *)
(* made to the executor and the benchmark so far, in order.                *)
(***************************************************************************)
PromptTokens == {7, 9}

Prompts == UNION {[1..n -> PromptTokens] : n \in 0..(MaxNumTokens + 1)}

kPromptTooLong == "InvalidArgument: Input token ids are too long."
kEmptyPrompt == "Internal: Input token ids are empty."
kNoTextData == "text data not available"
kPrefillTurnEnd == "Internal: prefill turn not started."

NewPrefill(prompt, settings, wait_for_completion, has_benchmark, turn_open, has_text_data) ==
    [pc |-> "entry",
     prompt |-> prompt,
     settings |-> settings,
     wait_for_completion |-> wait_for_completion,
     has_benchmark |-> has_benchmark,
     turn_open |-> turn_open,
     has_text_data |-> has_text_data,
     last_token_id |-> 0,
     log |-> <<>>,
     ret |-> [status |-> "none", value |-> 0]]

PrefillReturn(p, status, value) ==
    [p EXCEPT !.pc = "returned", !.ret = [status |-> status, value |-> value]]

ExecutorPrefill(wait_for_completion) ==
    [call |-> "executor.Prefill", wait_for_completion |-> wait_for_completion,
     num_tokens |-> 0]

TimePrefillTurnEnd(num_tokens) ==
    [call |-> "TimePrefillTurnEnd", wait_for_completion |-> FALSE,
     num_tokens |-> num_tokens]

LastTokenId_First(ids) == ids[1]

LastTokenId(ids) == ids[Len(ids)]

(***************************************************************************)
(* Prefill up to its call of executor.Prefill.                             *)
(***************************************************************************)
PrefillBegin(p) ==
    LET max_num_tokens == TryGetMaxNumTokens(p.settings)
        num_tokens == Len(p.prompt)
    IN  IF ~p.has_text_data THEN PrefillReturn(p, kNoTextData, 0)
        ELSE IF num_tokens >= max_num_tokens
        THEN PrefillReturn(p, kPromptTooLong, 0)
        ELSE IF p.prompt = <<>> THEN PrefillReturn(p, kEmptyPrompt, 0)
        ELSE [p EXCEPT !.pc = "inflight",
                       !.last_token_id = LastTokenId(p.prompt),
                       !.log = Append(@, ExecutorPrefill(p.wait_for_completion))]

(***************************************************************************)
(* Prefill after executor.Prefill returned OK, and after it failed.        *)
(***************************************************************************)
PrefillDone(p) ==
    IF p.has_benchmark
    THEN IF p.turn_open
         THEN PrefillReturn([p EXCEPT !.log = Append(@, TimePrefillTurnEnd(Len(p.prompt))),
                                      !.turn_open = FALSE],
                            "OK", p.last_token_id)
         ELSE PrefillReturn(p, kPrefillTurnEnd, 0)
    ELSE PrefillReturn(p, "OK", p.last_token_id)

PrefillFailed(p, status) == PrefillReturn(p, status, 0)

NoPrefill ==
    NewPrefill(<<>>, [ok |-> FALSE, max_num_tokens |-> 0], FALSE, FALSE, FALSE, TRUE)

(***************************************************************************)
(* InferLlmModelType.  The tokenizer is given by its two answers: the      *)
(* result of TokenIdsToText({105}) and of TextToTokenIds                   *)
(* ("<start_of_audio>"), each [ok, value].  A model type is the case set   *)
(* in the oneof and the image tensor size of that case (0 where the case   *)
(* has none).                                                              *)
(***************************************************************************)
kStartTurnTokenId == 105
kStartOfAudioTokenId == 256000
kImageTensorSize == 768

StartTurnTexts == {"<start_of_turn>", "Hello"}
AudioTokenIds == {kStartOfAudioTokenId, kStartOfAudioTokenId + 1}
MaxAudioIds == 2
AudioEncodings == UNION {[1..n -> AudioTokenIds] : n \in 0..MaxAudioIds}

ModelTypeCases == {"not_set", "gemma3n", "gemma3", "generic_model"}

ModelType(case) ==
    [case |-> case,
     image_tensor_size |-> IF case = "gemma3n" THEN kImageTensorSize ELSE 0]

InferLlmModelType_IgnoresSize(tokenizer) ==
    IF ~tokenizer.start_turn_text.ok
    THEN [status |-> tokenizer.start_turn_text.value, model_type |-> ModelType("not_set")]
    ELSE IF tokenizer.start_turn_text.value = "<start_of_turn>"
    THEN IF ~tokenizer.audio_token_ids.ok
         THEN [status |-> tokenizer.audio_token_ids.value,
               model_type |-> ModelType("not_set")]
         ELSE LET audio_token_ids == tokenizer.audio_token_ids.value IN
              IF Len(audio_token_ids) >= 1
                 /\ audio_token_ids[1] = kStartOfAudioTokenId
              THEN [status |-> "OK", model_type |-> ModelType("gemma3n")]
              ELSE [status |-> "OK", model_type |-> ModelType("gemma3")]
    ELSE [status |-> "OK", model_type |-> ModelType("generic_model")]

InferLlmModelType(tokenizer) ==
    IF ~tokenizer.start_turn_text.ok
    THEN [status |-> tokenizer.start_turn_text.value, model_type |-> ModelType("not_set")]
    ELSE IF tokenizer.start_turn_text.value = "<start_of_turn>"
    THEN IF ~tokenizer.audio_token_ids.ok
         THEN [status |-> tokenizer.audio_token_ids.value,
               model_type |-> ModelType("not_set")]
         ELSE LET audio_token_ids == tokenizer.audio_token_ids.value IN
              IF Len(audio_token_ids) = 1
                 /\ audio_token_ids[1] = kStartOfAudioTokenId
              THEN [status |-> "OK", model_type |-> ModelType("gemma3n")]
              ELSE [status |-> "OK", model_type |-> ModelType("gemma3")]
    ELSE [status |-> "OK", model_type |-> ModelType("generic_model")]

(***************************************************************************)
(* CreateModelDataProcessor.  A DataProcessorConfig is the alternative the *)
(* variant holds and its contents (0 for the default-constructed config).  *)
(***************************************************************************)
ConfigAlternatives ==
    {"monostate", "Gemma3DataProcessorConfig", "GenericDataProcessorConfig"}

DataProcessorConfigs ==
    {c \in [alt : ConfigAlternatives, contents : 0..1] :
        c.alt = "monostate" => c.contents = 0}

DefaultConfig(alt) == [alt |-> alt, contents |-> 0]

kUnsupportedModelType == "InvalidArgument: Unsupported model type"

NoProcessor == [kind |-> "none", config |-> DefaultConfig("monostate")]

ConfigFor_Passed(alt, config) == config

ConfigFor(alt, config) == IF config.alt = alt THEN config ELSE DefaultConfig(alt)

CreateModelDataProcessor(model_type, config) ==
    IF model_type.case \in {"gemma3n", "gemma3"}
    THEN [status |-> "OK",
          processor |-> [kind |-> "Gemma3DataProcessor",
                         config |-> ConfigFor("Gemma3DataProcessorConfig", config)]]
    ELSE IF model_type.case = "generic_model"
    THEN [status |-> "OK",
          processor |-> [kind |-> "GenericDataProcessor",
                         config |-> ConfigFor("GenericDataProcessorConfig", config)]]
    ELSE [status |-> kUnsupportedModelType, processor |-> NoProcessor]

(***************************************************************************)
(* The state of the construction of a model's data processor: the model    *)
(* type is inferred from the tokenizer, or given by the caller, and handed *)
(* to CreateModelDataProcessor with the caller's config.                   *)
(***************************************************************************)
TokenizerAnswers ==
    [start_turn_text : [ok : {TRUE}, value : StartTurnTexts]
                           \cup {[ok |-> FALSE, value |-> "TokenizerError"]},
     audio_token_ids : [ok : {TRUE}, value : AudioEncodings]
                           \cup {[ok |-> FALSE, value |-> "TokenizerError"]}]

NewModel(pc, tokenizer, model_type, config) ==
    [pc |-> pc,
     token_id |-> kStartTurnTokenId,
     tokenizer |-> tokenizer,
     config |-> config,
     infer_status |-> IF pc = "entry" THEN "none" ELSE "given",
     status |-> "none",
     model_type |-> model_type,
     processor |-> NoProcessor]

NoModel ==
    NewModel("idle",
             [start_turn_text |-> [ok |-> FALSE, value |-> "TokenizerError"],
              audio_token_ids |-> [ok |-> FALSE, value |-> "TokenizerError"]],
             ModelType("not_set"), DefaultConfig("monostate"))

(***************************************************************************)
(* ProcessedTokens.  An object is its processed tokens tokens_ and its     *)
(* pending input token pending_input_token_, a pointer that is null or     *)
(* holds a TokenData; the operators give the status an operation returns   *)
(* and the object it leaves.                                               *)
(***************************************************************************)
MaxProcessedTokens == 3
MaxAddedTokens == 2

TokenIds == {7, 9}

kNullptr == [has |-> FALSE, id |-> 0]

TokenData(token_id) == [has |-> TRUE, id |-> token_id]

kExistingPendingToken == "Internal: AddPendingInputToken called with an existing pending token."
kNegativeStep == "Internal: new_step must be non-negative"
kStepBeyondTokenCount == "Internal: new_step must be less than or equal to TokenCount()"
kNoPendingToken == "Internal: MarkPendingInputTokenAsProcessed called with no pending token."

TokenCount(p) == Len(p.tokens) + (IF p.pending.has THEN 1 ELSE 0)

kNullopt == [has_value |-> FALSE, value |-> 0]

GetNextUnprocessedToken_CountsPending(p) ==
    [step |-> TokenCount(p), token |-> p.pending]

GetNextUnprocessedToken(p) == [step |-> Len(p.tokens), token |-> p.pending]

AddProcessedTokens_Prepends(p, token_ids) ==
    [status |-> "OK", tokens |-> token_ids \o p.tokens, pending |-> p.pending]

AddProcessedTokens(p, token_ids) ==
    [status |-> "OK", tokens |-> p.tokens \o token_ids, pending |-> p.pending]

AddPendingInputToken_Overwrites(p, token) ==
    IF p.pending # kNullptr
    THEN [status |-> kExistingPendingToken, tokens |-> p.tokens, pending |-> token]
    ELSE [status |-> "OK", tokens |-> p.tokens, pending |-> token]

AddPendingInputToken(p, token) ==
    IF p.pending # kNullptr
    THEN [status |-> kExistingPendingToken, tokens |-> p.tokens, pending |-> p.pending]
    ELSE [status |-> "OK", tokens |-> p.tokens, pending |-> token]

RollBackToStep_RejectsTokenCount(p, new_step) ==
    IF new_step < 0
    THEN [status |-> kNegativeStep, tokens |-> p.tokens, pending |-> p.pending]
    ELSE IF new_step >= TokenCount(p)
    THEN [status |-> kStepBeyondTokenCount, tokens |-> p.tokens, pending |-> p.pending]
    ELSE [status |-> "OK", tokens |-> SubSeq(p.tokens, 1, new_step), pending |-> kNullptr]

RollBackToStep_KeepsPending(p, new_step) ==
    IF new_step < 0
    THEN [status |-> kNegativeStep, tokens |-> p.tokens, pending |-> p.pending]
    ELSE IF new_step > TokenCount(p)
    THEN [status |-> kStepBeyondTokenCount, tokens |-> p.tokens, pending |-> p.pending]
    ELSE IF new_step = TokenCount(p)
    THEN [status |-> "OK", tokens |-> p.tokens, pending |-> p.pending]
    ELSE [status |-> "OK",
          tokens |-> SubSeq(p.tokens, 1, IF new_step <= Len(p.tokens)
                                         THEN new_step ELSE Len(p.tokens)),
          pending |-> p.pending]

RollBackToStep(p, new_step) ==
    IF new_step < 0
    THEN [status |-> kNegativeStep, tokens |-> p.tokens, pending |-> p.pending]
    ELSE IF new_step > TokenCount(p)
    THEN [status |-> kStepBeyondTokenCount, tokens |-> p.tokens, pending |-> p.pending]
    ELSE IF new_step = TokenCount(p)
    THEN [status |-> "OK", tokens |-> p.tokens, pending |-> p.pending]
    ELSE [status |-> "OK", tokens |-> SubSeq(p.tokens, 1, new_step), pending |-> kNullptr]

GetTokenAtStep(p, step) ==
    IF step < 0 \/ step >= TokenCount(p) THEN kNullopt
    ELSE IF step = Len(p.tokens) /\ p.pending.has
    THEN [has_value |-> TRUE, value |-> p.pending.id]
    ELSE [has_value |-> TRUE, value |-> p.tokens[step + 1]]

MarkPendingInputTokenAsProcessed_DropsToken(p) ==
    IF ~p.pending.has
    THEN [status |-> kNoPendingToken, tokens |-> p.tokens, pending |-> p.pending]
    ELSE [status |-> "OK", tokens |-> p.tokens, pending |-> kNullptr]

MarkPendingInputTokenAsProcessed(p) ==
    IF ~p.pending.has
    THEN [status |-> kNoPendingToken, tokens |-> p.tokens, pending |-> p.pending]
    ELSE [status |-> "OK", tokens |-> Append(p.tokens, p.pending.id), pending |-> kNullptr]

GetCopyOfTokens(p) ==
    IF p.pending.has THEN Append(p.tokens, p.pending.id) ELSE p.tokens

InvalidatePendingInputToken(p) ==
    [status |-> "OK", tokens |-> p.tokens, pending |-> kNullptr]

(***************************************************************************)
(* A ProcessedTokens object under its callers: pt holds the object and,    *)
(* in last, the operation called last, its argument, the status it         *)
(* returned and the object it was called on.                               *)
(***************************************************************************)
NoCall ==
    [op |-> "none", token_ids |-> <<>>, token |-> kNullptr, new_step |-> 0,
     status |-> "OK", tokens |-> <<>>, pending |-> kNullptr]

NewProcessedTokens == [tokens |-> <<>>, pending |-> kNullptr, last |-> NoCall]

Called(p, op, result) ==
    [tokens |-> result.tokens,
     pending |-> result.pending,
     last |-> [NoCall EXCEPT !.op = op, !.status = result.status,
                             !.tokens = p.tokens, !.pending = p.pending]]

(***************************************************************************)
(* One candidate of DecodeOneStep::Run on its own: the deferred queue      *)
(* holds any number of earlier fragments and the detector, whose stop      *)
(* sequences are the caller's, reports any partial length.                 *)
(***************************************************************************)
MaxQueue == 3
MaxPartial == 3

Fragment(step) == TokenIdsToTexts(<< <<step, 7>> >>)

NewCandidate(size, max_length, found, bpe, tok) ==
    [pc |-> "entry",
     bpe |-> bpe,
     pending |-> [k \in 1..size |-> Fragment(k)],
     d |-> [matched |-> [k \in 1..max_length |-> 8], found |-> found],
     ids |-> MergeTokenIds(bpe, << <<size + 1, tok>> >>),
     out |-> [bpe |-> <<>>, pending |-> <<>>, text |-> <<>>, incomplete |-> FALSE]]

NoCandidate == [NewCandidate(0, 0, FALSE, <<>>, 7) EXCEPT !.pc = "idle"]

(***************************************************************************)
(* DecodeAndSample on the external sampling path, step after step on the   *)
(* caller's decoded_ids buffer: submitted holds the ids handed to          *)
(* executor.DecodeLogits, sampled the ids the sampler wrote, one entry per *)
(* call.  A sampler that fails may or may not have written the buffer.     *)
(***************************************************************************)
MaxSamplingSteps == 3

SampleIds == {7, 9}

SampleOutcomes == {"OK", "DuplicateError", "ExecutorError", "SamplerError", "SamplerErrorWritten"}

NewSampling(num_output_candidates, decoded_ids) ==
    [pc |-> "top",
     num_output_candidates |-> num_output_candidates,
     seed |-> decoded_ids,
     decoded_ids |-> decoded_ids,
     submitted |-> <<>>,
     sampled |-> <<>>,
     ret |-> "none"]

NoSampling == [NewSampling(1, <<7>>) EXCEPT !.pc = "idle"]

DecodeAndSample_SamplesIntoDuplicate(s, outcome, ids) ==
    IF outcome = "DuplicateError"
    THEN [s EXCEPT !.pc = "returned", !.ret = outcome]
    ELSE LET duplicate_decoded_ids == s.decoded_ids
             decoded == [s EXCEPT !.submitted = Append(@, duplicate_decoded_ids)]
         IN  IF outcome = "ExecutorError"
             THEN [decoded EXCEPT !.pc = "returned", !.ret = outcome]
             ELSE IF outcome = "SamplerError"
             THEN [decoded EXCEPT !.pc = "returned", !.ret = "SamplerError"]
             ELSE IF outcome = "SamplerErrorWritten"
             THEN [decoded EXCEPT !.pc = "returned", !.ret = "SamplerError",
                                  !.decoded_ids = ids]
             ELSE [decoded EXCEPT !.sampled = Append(@, ids)]

DecodeAndSample(s, outcome, ids) ==
    IF outcome = "DuplicateError"
    THEN [s EXCEPT !.pc = "returned", !.ret = outcome]
    ELSE LET duplicate_decoded_ids == s.decoded_ids
             decoded == [s EXCEPT !.submitted = Append(@, duplicate_decoded_ids)]
         IN  IF outcome = "ExecutorError"
             THEN [decoded EXCEPT !.pc = "returned", !.ret = outcome]
             ELSE IF outcome = "SamplerError"
             THEN [decoded EXCEPT !.pc = "returned", !.ret = "SamplerError"]
             ELSE IF outcome = "SamplerErrorWritten"
             THEN [decoded EXCEPT !.pc = "returned", !.ret = "SamplerError",
                                  !.decoded_ids = ids]
             ELSE [decoded EXCEPT !.decoded_ids = ids, !.sampled = Append(@, ids)]

VARIABLES cfg, run, cancelled, cancel_mark, pair, pre, mdl, pt, dq, smp

vars == <<cfg, run, cancelled, cancel_mark, pair, pre, mdl, pt, dq, smp>>

NoMark == [set |-> FALSE, events |-> 0, started |-> 0, iterations |-> 0,
           num_decode_steps |-> 0, pc |-> "none"]

Init ==
    /\ cfg \in Configs
    /\ \E n \in StartSteps(cfg) :
        \E open \in (IF cfg.has_benchmark THEN BOOLEAN ELSE {FALSE}) :
            run = NewRun(cfg, n, open)
    /\ cancelled = FALSE
    /\ cancel_mark = NoMark
    /\ smp = NoSampling
    /\ dq = NoCandidate
    /\ pt = NewProcessedTokens
    /\ mdl = NoModel
    /\ pair = [s |-> run, b |-> run]
    /\ pre = NoPrefill

Entry ==
    /\ run.pc = "entry"
    /\ run' = Enter(cfg, run)
    /\ UNCHANGED <<cfg, cancelled, cancel_mark, pair, pre, mdl, pt, dq, smp>>

LoopTop ==
    /\ run.pc = "top"
    /\ cancelled \/ WithinBudget(cfg, run)
    /\ run' = CheckCancelled(cfg, run, cancelled)
    /\ UNCHANGED <<cfg, cancelled, cancel_mark, pair, pre, mdl, pt, dq, smp>>

BeginStep ==
    /\ run.pc = "checked"
    /\ run' = StartStep(run)
    /\ UNCHANGED <<cfg, cancelled, cancel_mark, pair, pre, mdl, pt, dq, smp>>

StepOk ==
    /\ run.pc = "inflight"
    /\ \E toks \in [1..NumCandidates(cfg) -> Tokens] :
           run' = Iterate(cfg, run, toks)
    /\ UNCHANGED <<cfg, cancelled, cancel_mark, pair, pre, mdl, pt, dq, smp>>

StepError ==
    /\ run.pc = "inflight"
    /\ \E status \in StepErrorsOf(cfg) : run' = StepFailed(cfg, run, status)
    /\ UNCHANGED <<cfg, cancelled, cancel_mark, pair, pre, mdl, pt, dq, smp>>

StepAbort ==
    /\ run.pc = "inflight"
    /\ \E toks \in [1..NumCandidates(cfg) -> Tokens], status \in StepAborts :
           run' = StepAborted(cfg, run, toks, status)
    /\ UNCHANGED <<cfg, cancelled, cancel_mark, pair, pre, mdl, pt, dq, smp>>

(***************************************************************************)
(* Another thread sets the cancel flag; cancel_mark records where the run  *)
(* was at that moment.                                                     *)
(***************************************************************************)
SetCancelled ==
    /\ cfg.has_cancelled
    /\ ~cancelled
    /\ run.pc \notin {"returned", "aborted"}
    /\ cancelled' = TRUE
    /\ cancel_mark' = [set |-> TRUE, events |-> Len(run.events),
                       started |-> run.started, iterations |-> run.iterations,
                       num_decode_steps |-> run.num_decode_steps, pc |-> run.pc]
    /\ UNCHANGED <<cfg, run, pair, pre, mdl, pt, dq, smp>>

Next ==
    \/ Entry \/ LoopTop \/ BeginStep \/ StepOk \/ StepError \/ StepAbort
    \/ SetCancelled

Spec == Init /\ [][Next]_vars

(***************************************************************************)
(* The same calls, without benchmark and with room for at most two more   *)
(* tokens, made with a StopTokenDetector in any of the states of           *)
(* DetectorStates for each candidate.                                      *)
(***************************************************************************)
UsedDetectorInit ==
    /\ cfg \in {c \in Configs : ~c.has_benchmark /\ c.settings.max_num_tokens = MaxNumTokens}
    /\ \E n \in {m \in StartSteps(cfg) : m + 2 >= MaxNumTokens} :
        \E stop_token_detector \in [1..NumCandidates(cfg) -> DetectorStates] :
            run = NewRunWith(cfg, n, stop_token_detector)
    /\ cancelled = FALSE
    /\ cancel_mark = NoMark
    /\ smp = NoSampling
    /\ dq = NoCandidate
    /\ pt = NewProcessedTokens
    /\ mdl = NoModel
    /\ pair = [s |-> run, b |-> run]
    /\ pre = NoPrefill

UsedDetectorSpec == UsedDetectorInit /\ [][Next]_vars


(***************************************************************************)
(* A streaming call and the batch call of the same kind, run side by side  *)
(* on the same executor, tokenizer, sampler and detector results and the   *)
(* same cancel flag: pair.s is the streaming run, pair.b the batch run.    *)
(***************************************************************************)
BatchOf(c) ==
    [c EXCEPT !.entry = IF IsCustomSampling(c.entry)
                        THEN "DecodeCustomSampling" ELSE "Decode",
              !.observer = FALSE]

PairAt(pc) == pair.s.pc = pc /\ pair.b.pc = pc

PairInit ==
    /\ cfg \in {c \in Configs : IsStreamingEntry(c.entry) /\ c.observer}
    /\ \E n \in StartSteps(cfg) :
        \E open \in (IF cfg.has_benchmark THEN BOOLEAN ELSE {FALSE}) :
            /\ run = NewRun(cfg, n, open)
            /\ pair = [s |-> NewRun(cfg, n, open),
                       b |-> NewRun(BatchOf(cfg), n, open)]
    /\ cancelled = FALSE
    /\ cancel_mark = NoMark
    /\ smp = NoSampling
    /\ dq = NoCandidate
    /\ pt = NewProcessedTokens
    /\ mdl = NoModel
    /\ pre = NoPrefill

PairEntry ==
    /\ PairAt("entry")
    /\ pair' = [s |-> Enter(cfg, pair.s), b |-> Enter(BatchOf(cfg), pair.b)]
    /\ UNCHANGED <<cfg, run, cancelled, cancel_mark, pre, mdl, pt, dq, smp>>

PairLoopTop ==
    /\ PairAt("top")
    /\ cancelled \/ WithinBudget(cfg, pair.s)
    /\ pair' = [s |-> CheckCancelled(cfg, pair.s, cancelled),
                b |-> CheckCancelled(BatchOf(cfg), pair.b, cancelled)]
    /\ UNCHANGED <<cfg, run, cancelled, cancel_mark, pre, mdl, pt, dq, smp>>

PairBeginStep ==
    /\ PairAt("checked")
    /\ pair' = [s |-> StartStep(pair.s), b |-> StartStep(pair.b)]
    /\ UNCHANGED <<cfg, run, cancelled, cancel_mark, pre, mdl, pt, dq, smp>>

PairStepOk ==
    /\ PairAt("inflight")
    /\ \E toks \in [1..NumCandidates(cfg) -> Tokens] :
           pair' = [s |-> Iterate(cfg, pair.s, toks),
                    b |-> Iterate(BatchOf(cfg), pair.b, toks)]
    /\ UNCHANGED <<cfg, run, cancelled, cancel_mark, pre, mdl, pt, dq, smp>>

PairStepError ==
    /\ PairAt("inflight")
    /\ \E status \in StepErrorsOf(cfg) :
           pair' = [s |-> StepFailed(cfg, pair.s, status),
                    b |-> StepFailed(BatchOf(cfg), pair.b, status)]
    /\ UNCHANGED <<cfg, run, cancelled, cancel_mark, pre, mdl, pt, dq, smp>>

PairStepAbort ==
    /\ PairAt("inflight")
    /\ \E toks \in [1..NumCandidates(cfg) -> Tokens], status \in StepAborts :
           pair' = [s |-> StepAborted(cfg, pair.s, toks, status),
                    b |-> StepAborted(BatchOf(cfg), pair.b, toks, status)]
    /\ UNCHANGED <<cfg, run, cancelled, cancel_mark, pre, mdl, pt, dq, smp>>

PairSetCancelled ==
    /\ cfg.has_cancelled
    /\ ~cancelled
    /\ pair.s.pc \notin {"returned", "aborted"}
    /\ cancelled' = TRUE
    /\ UNCHANGED <<cfg, run, cancel_mark, pair, pre, mdl, pt, dq, smp>>

PairNext ==
    \/ PairEntry \/ PairLoopTop \/ PairBeginStep \/ PairStepOk \/ PairStepError
    \/ PairStepAbort \/ PairSetCancelled

PairSpec == PairInit /\ [][PairNext]_vars

(***************************************************************************)
(* Calls of Prefill: every prompt of up to MaxNumTokens + 1 tokens, with   *)
(* the settings available (budget MaxNumTokens) or not.  No decode call is *)
(* made.                                                                   *)
(***************************************************************************)
PrefillInit ==
    /\ \E prompt \in Prompts, ok \in BOOLEAN, wait_for_completion \in BOOLEAN,
          has_benchmark \in BOOLEAN, has_text_data \in BOOLEAN :
        \E turn_open \in (IF has_benchmark THEN BOOLEAN ELSE {FALSE}) :
            pre = NewPrefill(prompt,
                             [ok |-> ok,
                              max_num_tokens |-> IF ok THEN MaxNumTokens ELSE 0],
                             wait_for_completion, has_benchmark, turn_open,
                             has_text_data)
    /\ cfg = CHOOSE c \in Configs :
                 /\ c.entry = "Decode" /\ ~c.settings.ok
                 /\ ~c.has_benchmark /\ ~c.has_cancelled
    /\ run = NewRun(cfg, 0, FALSE)
    /\ cancelled = FALSE
    /\ cancel_mark = NoMark
    /\ smp = NoSampling
    /\ dq = NoCandidate
    /\ pt = NewProcessedTokens
    /\ mdl = NoModel
    /\ pair = [s |-> run, b |-> run]

PrefillEntry ==
    /\ pre.pc = "entry"
    /\ pre' = PrefillBegin(pre)
    /\ UNCHANGED <<cfg, run, cancelled, cancel_mark, pair, mdl, pt, dq, smp>>

PrefillOk ==
    /\ pre.pc = "inflight"
    /\ pre' = PrefillDone(pre)
    /\ UNCHANGED <<cfg, run, cancelled, cancel_mark, pair, mdl, pt, dq, smp>>

PrefillError ==
    /\ pre.pc = "inflight"
    /\ pre' = PrefillFailed(pre, "ExecutorError")
    /\ UNCHANGED <<cfg, run, cancelled, cancel_mark, pair, mdl, pt, dq, smp>>

PrefillNext == PrefillEntry \/ PrefillOk \/ PrefillError

PrefillSpec == PrefillInit /\ [][PrefillNext]_vars

(***************************************************************************)
(* The construction of a data processor: InferLlmModelType on every        *)
(* tokenizer, or a model type given by the caller, then                    *)
(* CreateModelDataProcessor with every config.  No decode or prefill call  *)
(* is made.                                                                *)
(***************************************************************************)
ModelInit ==
    /\ \E config \in DataProcessorConfigs :
        \/ \E tokenizer \in TokenizerAnswers :
               mdl = NewModel("entry", tokenizer, ModelType("not_set"), config)
        \/ \E case \in ModelTypeCases :
               mdl = NewModel("inferred", NoModel.tokenizer, ModelType(case), config)
    /\ cfg = CHOOSE c \in Configs :
                 /\ c.entry = "Decode" /\ ~c.settings.ok
                 /\ ~c.has_benchmark /\ ~c.has_cancelled
    /\ run = NewRun(cfg, 0, FALSE)
    /\ cancelled = FALSE
    /\ cancel_mark = NoMark
    /\ smp = NoSampling
    /\ dq = NoCandidate
    /\ pt = NewProcessedTokens
    /\ pair = [s |-> run, b |-> run]
    /\ pre = NoPrefill

InferModelType ==
    /\ mdl.pc = "entry"
    /\ LET result == InferLlmModelType(mdl.tokenizer) IN
       mdl' = [mdl EXCEPT !.pc = IF result.status = "OK" THEN "inferred" ELSE "returned",
                          !.infer_status = result.status,
                          !.status = result.status,
                          !.model_type = result.model_type]
    /\ UNCHANGED <<cfg, run, cancelled, cancel_mark, pair, pre, pt, dq, smp>>

CreateProcessor ==
    /\ mdl.pc = "inferred"
    /\ LET result == CreateModelDataProcessor(mdl.model_type, mdl.config) IN
       mdl' = [mdl EXCEPT !.pc = "returned",
                          !.status = result.status,
                          !.processor = result.processor]
    /\ UNCHANGED <<cfg, run, cancelled, cancel_mark, pair, pre, pt, dq, smp>>

ModelNext == InferModelType \/ CreateProcessor

ModelSpec == ModelInit /\ [][ModelNext]_vars

(***************************************************************************)
(* The operations of ProcessedTokens called in any order on one object.    *)
(* The object holds at most MaxProcessedTokens processed tokens; a roll    *)
(* back is asked to every step from -1 to beyond the token count.          *)
(***************************************************************************)
TokensInit ==
    /\ pt = NewProcessedTokens
    /\ mdl = NoModel
    /\ cfg = CHOOSE c \in Configs :
                 /\ c.entry = "Decode" /\ ~c.settings.ok
                 /\ ~c.has_benchmark /\ ~c.has_cancelled
    /\ run = NewRun(cfg, 0, FALSE)
    /\ cancelled = FALSE
    /\ cancel_mark = NoMark
    /\ smp = NoSampling
    /\ dq = NoCandidate
    /\ pair = [s |-> run, b |-> run]
    /\ pre = NoPrefill

CallAddProcessedTokens ==
    /\ \E n \in 0..MaxAddedTokens : \E token_ids \in [1..n -> TokenIds] :
        /\ Len(pt.tokens) + n <= MaxProcessedTokens
        /\ pt' = [Called(pt, "AddProcessedTokens", AddProcessedTokens(pt, token_ids))
                     EXCEPT !.last.token_ids = token_ids]
    /\ UNCHANGED <<cfg, run, cancelled, cancel_mark, pair, pre, mdl, dq, smp>>

CallAddPendingInputToken ==
    /\ \E token \in {kNullptr} \cup {TokenData(id) : id \in TokenIds} :
        pt' = [Called(pt, "AddPendingInputToken", AddPendingInputToken(pt, token))
                  EXCEPT !.last.token = token]
    /\ UNCHANGED <<cfg, run, cancelled, cancel_mark, pair, pre, mdl, dq, smp>>

CallRollBackToStep ==
    /\ \E new_step \in -1..(MaxProcessedTokens + 2) :
        pt' = [Called(pt, "RollBackToStep", RollBackToStep(pt, new_step))
                  EXCEPT !.last.new_step = new_step]
    /\ UNCHANGED <<cfg, run, cancelled, cancel_mark, pair, pre, mdl, dq, smp>>

CallMarkPendingInputTokenAsProcessed ==
    /\ Len(pt.tokens) < MaxProcessedTokens
    /\ pt' = Called(pt, "MarkPendingInputTokenAsProcessed",
                    MarkPendingInputTokenAsProcessed(pt))
    /\ UNCHANGED <<cfg, run, cancelled, cancel_mark, pair, pre, mdl, dq, smp>>

CallInvalidatePendingInputToken ==
    /\ pt' = Called(pt, "InvalidatePendingInputToken", InvalidatePendingInputToken(pt))
    /\ UNCHANGED <<cfg, run, cancelled, cancel_mark, pair, pre, mdl, dq, smp>>

TokensNext ==
    \/ CallAddProcessedTokens
    \/ CallAddPendingInputToken
    \/ CallRollBackToStep
    \/ CallMarkPendingInputTokenAsProcessed
    \/ CallInvalidatePendingInputToken

TokensSpec == TokensInit /\ [][TokensNext]_vars

(***************************************************************************)
(* DecodeOneStep::Run for one candidate, from every deferred queue of up   *)
(* to MaxQueue fragments, every partial length up to MaxPartial, with and  *)
(* without held back ids, and every new id.                                *)
(***************************************************************************)
CandidateInit ==
    /\ \E size \in 0..MaxQueue, max_length \in 0..MaxPartial, found \in BOOLEAN,
          bpe \in {<<>>, << <<0, 6>> >>}, tok \in Tokens :
           dq = NewCandidate(size, max_length, found, bpe, tok)
    /\ pt = NewProcessedTokens
    /\ mdl = NoModel
    /\ cfg = CHOOSE c \in Configs :
                 /\ c.entry = "Decode" /\ ~c.settings.ok
                 /\ ~c.has_benchmark /\ ~c.has_cancelled
    /\ run = NewRun(cfg, 0, FALSE)
    /\ cancelled = FALSE
    /\ cancel_mark = NoMark
    /\ smp = NoSampling
    /\ pair = [s |-> run, b |-> run]
    /\ pre = NoPrefill

RunOneCandidate ==
    /\ dq.pc = "entry"
    /\ dq' = [dq EXCEPT !.pc = "done",
                        !.out = RunCandidate(dq.bpe, dq.pending, dq.d, dq.ids)]
    /\ UNCHANGED <<cfg, run, cancelled, cancel_mark, pair, pre, mdl, pt, smp>>

CandidateNext == RunOneCandidate

CandidateSpec == CandidateInit /\ [][CandidateNext]_vars

(***************************************************************************)
(* The loop of DecodeLoop seen from the decoded_ids buffer of              *)
(* DecodeCustomSampling: every iteration hands the same buffer to Run,     *)
(* and the loop is left after any iteration, through ShouldStop or a       *)
(* failure of Run after the sampling, or at the top of any iteration when  *)
(* the call is cancelled.                                                  *)
(***************************************************************************)
SamplingInit ==
    /\ \E n \in 1..MaxCandidates : \E decoded_ids \in [1..n -> SampleIds] :
           smp = NewSampling(n, decoded_ids)
    /\ dq = NoCandidate
    /\ pt = NewProcessedTokens
    /\ mdl = NoModel
    /\ cfg = CHOOSE c \in Configs :
                 /\ c.entry = "Decode" /\ ~c.settings.ok
                 /\ ~c.has_benchmark /\ ~c.has_cancelled
    /\ run = NewRun(cfg, 0, FALSE)
    /\ cancelled = FALSE
    /\ cancel_mark = NoMark
    /\ pair = [s |-> run, b |-> run]
    /\ pre = NoPrefill

SamplingStep ==
    /\ smp.pc = "top"
    /\ Len(smp.submitted) < MaxSamplingSteps
    /\ \E outcome \in SampleOutcomes :
       \E ids \in [1..smp.num_output_candidates -> SampleIds] :
           smp' = DecodeAndSample(smp, outcome, ids)
    /\ UNCHANGED <<cfg, run, cancelled, cancel_mark, pair, pre, mdl, pt, dq>>

SamplingEnd ==
    /\ smp.pc = "top"
    /\ \E status \in {"OK", kCancelled, "TokenizerError", "DetectorError"} :
        /\ status # kCancelled => smp.sampled # <<>>
        /\ smp' = [smp EXCEPT !.pc = "returned", !.ret = status]
    /\ UNCHANGED <<cfg, run, cancelled, cancel_mark, pair, pre, mdl, pt, dq>>

SamplingNext == SamplingStep \/ SamplingEnd

SamplingSpec == SamplingInit /\ [][SamplingNext]_vars

(***************************************************************************)
(* Vocabulary of the properties.                                           *)
(***************************************************************************)
Streaming == IsStreamingEntry(cfg.entry) /\ cfg.observer

Cands == DOMAIN run.det

IsTerminal(e) == e.type \in {"error", "done"}

LastEvent(r) == r.events[Len(r.events)]

EventsOfType(r, type) == {k \in 1..Len(r.events) : r.events[k].type = type}

RECURSIVE StreamedText(_, _)
StreamedText(events, i) ==
    IF events = <<>> THEN <<>>
    ELSE (IF Head(events).type = "next" THEN Head(events).texts[i] ELSE <<>>)
         \o StreamedText(Tail(events), i)

Delivered(c, r, i) ==
    IF IsStreamingEntry(c.entry) THEN StreamedText(r.events, i) ELSE r.texts[i]

InvalidArgumentStatuses == {kPromptTooLong, kNullObserver}

NextAfterMark ==
    Cardinality({k \in EventsOfType(run, "next") : k > cancel_mark.events})

\* C1: the observer receives at most one terminal event (on_done or on_error)
\* and no event of any kind, in particular no on_next, after it: a terminal
\* event is always the last event delivered so far.
C1_TerminalEventIsLast ==
    \A k \in 1..Len(run.events) :
        IsTerminal(run.events[k]) => k = Len(run.events)

C1_Witness ==
    /\ run.pc = "returned"
    /\ Len(run.events) >= 3
    /\ run.events[1].type = "next"
    /\ LastEvent(run).type = "error"

\* C2: in a streaming run that has returned, every on_error(e) the observer
\* received carries the status the entry point returned, and a non-OK return
\* status was delivered to the observer through on_error.
C2_ErrorSeenAndReturned ==
    (Streaming /\ run.pc = "returned") =>
        /\ \A k \in EventsOfType(run, "error") : run.events[k].status = run.ret
        /\ (run.ret # "OK" =>
               \E k \in EventsOfType(run, "error") : run.events[k].status = run.ret)

\* C3 (as stated): when an iteration starts with the cancel flag set, the loop
\* ends at that iteration or the next with Cancelled; in streaming mode no
\* on_next was delivered after the flag was set, exactly one on_error(Cancelled)
\* is delivered and on_done is not.
C3_NoOnNextAfterFlagSet ==
    (cancel_mark.set /\ run.cause = "cancel") =>
        /\ run.pc = "returned" /\ run.ret = kCancelled
        /\ run.iterations \in {cancel_mark.iterations + 1, cancel_mark.iterations + 2}
        /\ (Streaming =>
               /\ NextAfterMark = 0
               /\ Cardinality(EventsOfType(run, "error")) = 1
               /\ LastEvent(run) = OnError(kCancelled)
               /\ EventsOfType(run, "done") = {})

\* C3 (amended): when an iteration starts with the cancel flag set, the loop
\* ends at that iteration or the next with Cancelled; in streaming mode at most
\* one on_next is delivered after the flag was set, and only by an iteration
\* that had passed its cancellation check before the flag was set; exactly one
\* on_error(Cancelled) is delivered and on_done is not.
C3_AtMostOneOnNextAfterFlagSet ==
    /\ (cancel_mark.set /\ Streaming) =>
           NextAfterMark <=
               (IF cancel_mark.pc \in {"checked", "inflight"} THEN 1 ELSE 0)
    /\ (cancel_mark.set /\ run.cause = "cancel") =>
        /\ run.pc = "returned" /\ run.ret = kCancelled
        /\ run.iterations \in {cancel_mark.iterations + 1, cancel_mark.iterations + 2}
        /\ (Streaming =>
               /\ Cardinality(EventsOfType(run, "error")) = 1
               /\ LastEvent(run) = OnError(kCancelled)
               /\ EventsOfType(run, "done") = {})

C3_Witness ==
    /\ cancel_mark.set /\ run.cause = "cancel" /\ Streaming
    /\ cancel_mark.pc = "inflight"
    /\ NextAfterMark = 1

\* C4: once another thread has set the cancel flag, the executor call in
\* flight at that moment completes as an ordinary step (or fails with its own
\* error), at most one decode step is started after the flag became true, at
\* most one more top-of-loop check is made, and that check ends the run with
\* Cancelled.
C4_CancelObservedOneStepLate ==
    cancel_mark.set =>
        /\ run.started <= cancel_mark.started + 1
        /\ run.iterations <= cancel_mark.iterations + 1
        /\ (run.iterations = cancel_mark.iterations + 1 =>
               run.pc = "returned" /\ run.cause = "cancel" /\ run.ret = kCancelled)
        /\ ((cancel_mark.pc = "inflight" /\ run.pc # "inflight") =>
               /\ run.started = cancel_mark.started
               /\ \/ run.cause = "error"
                  \/ run.num_decode_steps = cancel_mark.num_decode_steps + 1)

C4_Witness ==
    /\ cancel_mark.set /\ cancel_mark.pc = "checked"
    /\ run.started = cancel_mark.started + 1
    /\ run.cause = "cancel" /\ run.ret = kCancelled

\* C5: a streaming run that left the loop through ShouldStop ends with
\* on_error("Maximum kv-cache size reached.") exactly when the cache condition
\* is the one that ended the loop, and with on_done when the stops (K = 0) or
\* the benchmark cap ended it.
C5_KvErrorIffCacheEndedLoop ==
    (Streaming /\ run.pc = "returned" /\ run.ret = "OK"
        /\ run.cause \in {"stops", "cap", "cache"}) =>
        /\ (run.cause = "cache" => LastEvent(run) = OnError(kKvCache))
        /\ (run.cause \in {"stops", "cap"} => LastEvent(run) = OnDone)

\* C6: a streaming run and a batch run fed the same executor, tokenizer,
\* sampler and detector results take the same steps, and for every candidate
\* the concatenation of the on_next chunks equals the text of the batch
\* Responses (the batch run returns Responses unless it ends with an error
\* or does not return).
C6_StreamedEqualsBatch ==
    /\ pair.s.pc = pair.b.pc
    /\ pair.s.num_decode_steps = pair.b.num_decode_steps
    /\ (pair.b.ret \in {"none", "OK"} /\ pair.b.pc # "aborted") =>
           \A i \in DOMAIN pair.b.det :
               StreamedText(pair.s.events, i) = pair.b.texts[i]

C6_Witness ==
    /\ pair.b.pc = "returned" /\ pair.b.ret = "OK"
    /\ Len(pair.s.events) >= 3
    /\ \A i \in DOMAIN pair.b.det : Len(pair.b.texts[i]) >= 2
    /\ Cardinality(DOMAIN pair.b.det) = 2

\* C7: once a candidate's stop sequence is complete, nothing delivered for the
\* candidate (batch text or on_next chunks) was decoded from a token of that
\* stop sequence, i.e. from one of the last Len(stop sequence) tokens up to the
\* step that completed it.
C7_StopTextNeverDelivered ==
    \A i \in Cands :
        run.det[i].found =>
            \A k \in 1..Len(Delivered(cfg, run, i)) :
                Delivered(cfg, run, i)[k][1]
                    <= run.found_at[i] - Len(run.det[i].matched)

C7_Witness ==
    \E i \in Cands :
        /\ run.det[i].found /\ Len(run.det[i].matched) = 2
        /\ \E k \in 1..Len(Delivered(cfg, run, i)) : Delivered(cfg, run, i)[k][2] = 8

\* C8 (as stated): text is released for a candidate only at a step after which
\* the detector's matched prefix length for the candidate is 0.
C8_ReleasedOnlyAtPrefixZero ==
    \A i \in Cands :
        run.result_text[i] # <<>> => MaxPartialStopTokenLength(run.det[i]) = 0

\* C8 (amended): the text released for a candidate at a step is decoded only
\* from tokens older than the last L tokens, L being the detector's matched
\* prefix length for the candidate after the step; L need not be 0.  Hence
\* nothing delivered so far was decoded from one of the last L tokens.
C8_ReleasedOlderThanPrefix ==
    \A i \in Cands :
        /\ \A k \in 1..Len(run.result_text[i]) :
               run.result_text[i][k][1]
                   <= run.num_decode_steps - MaxPartialStopTokenLength(run.det[i])
        /\ ~run.det[i].found =>
               \A k \in 1..Len(Delivered(cfg, run, i)) :
                   Delivered(cfg, run, i)[k][1]
                       <= run.num_decode_steps - MaxPartialStopTokenLength(run.det[i])

C8_Witness ==
    \E i \in Cands :
        /\ run.result_text[i] # <<>>
        /\ ~run.det[i].found
        /\ MaxPartialStopTokenLength(run.det[i]) > 0

\* C9 (as stated): after every decode step the deferred queue of every
\* candidate holds at most max_partial_stop_len fragments.
C9_DeferredWithinPartialLength ==
    \A i \in Cands :
        Len(run.pending[i]) <= MaxPartialStopTokenLength(run.det[i])

\* C9 (amended): after every decode step whose decode for candidate i was
\* complete and at which i's stop is not found, the deferred queue of i holds
\* at most max_partial_stop_len(i) fragments.
C9_DeferredWithinPartialLengthWhenComplete ==
    \A i \in Cands :
        (~run.incomplete[i] /\ ~run.det[i].found) =>
            Len(run.pending[i]) <= MaxPartialStopTokenLength(run.det[i])

C9_Witness ==
    \E i \in Cands :
        /\ ~run.incomplete[i] /\ ~run.det[i].found
        /\ run.num_decode_steps >= 2
        /\ Len(run.pending[i]) = 1
        /\ run.result_text[i] # <<>>

\* C10 (as stated): after every decode step, bpe_pending[i] is empty or the
\* decode of i in that step was reported incomplete.
C10_BpeEmptyOrIncomplete ==
    \A i \in Cands : run.bpe[i] = <<>> \/ run.incomplete[i]

\* C10 (amended): after every decode step, bpe_pending[i] is empty, or the
\* decode of i in that step was reported incomplete, or i's stop has been
\* found (the ids pending at that moment are then kept).
C10_BpeEmptyOrIncompleteOrStopped ==
    \A i \in Cands : run.bpe[i] = <<>> \/ run.incomplete[i] \/ run.det[i].found

C10_Witness ==
    \E i \in Cands :
        /\ ~run.det[i].found /\ ~run.incomplete[i] /\ run.bpe[i] = <<>>
        /\ \E k \in 1..Len(run.result_text[i]) : run.result_text[i][k][2] = 6

\* C11: a run entered with the executor at current step c and a budget of
\* max_num_tokens = M starts at most M - c decode steps, for every c; for
\* c >= M that is no decode step at all.
C11_AtMostBudgetIterations ==
    LET M == TryGetMaxNumTokens(cfg.settings)
        c == run.entry_step
    IN  run.started <= (IF c >= M THEN 0 ELSE M - c)

\* C11 (amended): a run entered with the executor at current step c and a
\* budget of max_num_tokens = M starts at most M - c decode steps when c < M,
\* and at most one decode step when c >= M.
C11_AtMostBudgetOrOneIteration ==
    LET M == TryGetMaxNumTokens(cfg.settings)
        c == run.entry_step
    IN  run.started <= (IF c >= M THEN 1 ELSE M - c)

C11_Witness ==
    LET M == TryGetMaxNumTokens(cfg.settings)
        c == run.entry_step
    IN  /\ c + 2 <= M
        /\ run.started = M - c
        /\ run.pc = "returned" /\ run.cause = "cache"

\* C12: with a benchmark cap K > 0, no cancellation, no error and the cache
\* not exhausted before step K, the loop runs exactly K decode steps whatever
\* step the detector reports all candidates done at; in streaming mode with
\* output at every step and no stop found, exactly K on_next events are
\* followed by on_done.
C12_ExactlyKSteps ==
    LET K == BenchmarkDecodeTokenCount(cfg)
        M == TryGetMaxNumTokens(cfg.settings)
    IN  (/\ K > 0
         /\ run.pc = "returned"
         /\ run.cause \in {"stops", "cap", "cache"}
         /\ run.entry_step + K <= M) =>
            /\ run.num_decode_steps = K
            /\ (/\ Streaming
                /\ run.output_steps = run.num_decode_steps
                /\ \A i \in Cands : ~run.det[i].found) =>
                   /\ Cardinality(EventsOfType(run, "next")) = K
                   /\ Len(run.events) = K + 1
                   /\ LastEvent(run) = OnDone

\* C13: with K = 0 and no collaborator call failing, the loop ends at the
\* first decode step after which the detector reports all candidates done, and
\* no decode step is started after that step; the loop does not end while some
\* candidate is not done unless cancellation, an error or cache exhaustion
\* ends it.
C13_EndsAtFirstAllDone ==
    BenchmarkDecodeTokenCount(cfg) = 0 =>
        /\ (AllDone(run.det) /\ run.failed = "none") =>
               /\ run.pc = "returned" /\ run.cause = "stops"
               /\ run.started = run.num_decode_steps
               /\ \A i \in Cands : run.found_at[i] \in 1..run.started
               /\ \E i \in Cands : run.found_at[i] = run.started
        /\ (run.pc = "returned" /\ run.started > 0 /\ ~AllDone(run.det)) =>
               run.cause \in {"cancel", "error", "cache"}

C13_Witness ==
    /\ BenchmarkDecodeTokenCount(cfg) = 0
    /\ Cardinality(Cands) = 2
    /\ AllDone(run.det)
    /\ run.found_at[1] = 1 /\ run.found_at[2] = 2
    /\ run.entry_step + 2 < TryGetMaxNumTokens(cfg.settings)

\* C14 (as stated): with one candidate, max_num_tokens = 10, prompt length 3,
\* the executor emitting ids 7, 8, 9 then 2 and stop sequences {[2], [8,9]},
\* the batch text is the text of id 7 alone ("Hi") and the loop runs 4 decode
\* steps.
C14_TextHiAfterFourSteps ==
    (/\ cfg.entry = "Decode" /\ ~cfg.has_benchmark
     /\ cfg.settings.ok /\ cfg.settings.max_num_tokens = 10
     /\ run.entry_step = 3
     /\ run.pc = "returned" /\ run.ret = "OK"
     /\ run.found_at[1] = 3 /\ run.det[1].matched = <<8, 9>>
     /\ Len(run.texts[1]) > 0 /\ run.texts[1][1] = <<1, 7>>) =>
        /\ run.texts[1] = << <<1, 7>> >>
        /\ run.num_decode_steps = 4

\* C14 (amended): in the same call, no collaborator call failing, once ids
\* 7, 8, 9 have been decoded the loop has ended after 3 decode steps (id 2 is
\* never decoded) and the batch text is the text of id 7 alone ("Hi").
C14_TextHiAfterThreeSteps ==
    (/\ cfg.entry = "Decode" /\ ~cfg.has_benchmark
     /\ cfg.settings.ok /\ cfg.settings.max_num_tokens = 10
     /\ run.entry_step = 3 /\ run.failed = "none"
     /\ run.found_at[1] = 3 /\ run.det[1].matched = <<8, 9>>
     /\ Len(run.texts[1]) > 0 /\ run.texts[1][1] = <<1, 7>>) =>
        /\ run.pc = "returned" /\ run.ret = "OK"
        /\ run.texts[1] = << <<1, 7>> >>
        /\ run.num_decode_steps = 3 /\ run.started = 3

C14_Witness ==
    /\ cfg.entry = "Decode" /\ ~cfg.has_benchmark /\ ~cfg.has_cancelled
    /\ cfg.settings.ok /\ cfg.settings.max_num_tokens = 10
    /\ run.entry_step = 3
    /\ run.pc = "returned"
    /\ run.found_at[1] = 3 /\ run.det[1].matched = <<8, 9>>
    /\ run.texts[1] = << <<1, 7>> >>

\* C15 (as stated): in batch mode with external sampling, when the call
\* returns OK the final score of every candidate i is the sum of the scores of
\* all decode steps for i divided by the number of steps in which i produced
\* non-empty text, and negative infinity when that number is zero.
C15_ScoreIsSumOfAllStepsOverTextSteps ==
    (cfg.entry = "DecodeCustomSampling" /\ run.pc = "returned" /\ run.ret = "OK") =>
        \A i \in Cands :
            run.scores[i] = IF run.text_steps[i] > 0
                            THEN <<run.step_scores[i], run.text_steps[i]>>
                            ELSE NegInf

\* C15 (amended): in batch mode with external sampling, when the call returns
\* OK the final score of every candidate i is the sum of the scores of the
\* steps in which i produced non-empty text divided by the number of those
\* steps, and negative infinity when that number is zero.
C15_ScoreIsMeanOverTextSteps ==
    (cfg.entry = "DecodeCustomSampling" /\ run.pc = "returned" /\ run.ret = "OK") =>
        \A i \in Cands :
            run.scores[i] = IF run.text_steps[i] > 0
                            THEN <<run.text_scores[i], run.text_steps[i]>>
                            ELSE NegInf

C15_Witness ==
    /\ cfg.entry = "DecodeCustomSampling" /\ run.pc = "returned" /\ run.ret = "OK"
    /\ Cardinality(Cands) = 2
    /\ run.text_steps[1] = 0 /\ run.scores[1] = NegInf
    /\ run.text_steps[2] = 2 /\ run.step_scores[2] = run.text_scores[2]
    /\ run.scores[2] = <<run.text_scores[2], 2>>

\* C16: in streaming mode with external sampling, the score an on_next chunk
\* carries for candidate i is the score sampled for the token whose decoded
\* text makes up the chunk: every completely decoded token with text in the
\* chunk was sampled in the step that delivers the chunk, and the chunk's
\* score is that token's score; also when fragments were deferred earlier.
C16_ChunkScoreIsOfChunkTokens ==
    (cfg.entry = "DecodeCustomSamplingStreaming" /\ cfg.observer) =>
        \A k \in 1..Len(run.next_steps) :
            \A i \in Cands :
                LET chunk == run.events[k].texts[i] IN
                \A n \in 1..Len(chunk) :
                    chunk[n][2] \in Tokens \ IncompleteTokens =>
                        /\ chunk[n][1] = run.next_steps[k]
                        /\ run.events[k].scores[i] = ScoreOf(chunk[n][2])

\* C17: DecodeStreaming and DecodeCustomSamplingStreaming called with a null
\* observer return InvalidArgument and change nothing else: no decode step is
\* started, the executor's current step and the benchmark's decode turn are
\* as they were, and no observer event exists.
C17_NullObserverRejected ==
    [][(IsStreamingEntry(cfg.entry) /\ ~cfg.observer /\ run.pc = "entry") =>
           (run' = run \/ run' = Return(run, kNullObserver))]_vars

C17_Witness ==
    /\ cfg.entry = "DecodeCustomSamplingStreaming" /\ ~cfg.observer
    /\ cfg.has_benchmark /\ run.turn_open
    /\ run.pc = "returned" /\ run.ret = kNullObserver
    /\ run.started = 0 /\ run.iterations = 0 /\ run.events = <<>>
    /\ run.current_step = run.entry_step

\* C18: Prefill returns InvalidArgument both for an empty token-id buffer and
\* for a prompt whose length is not smaller than max_num_tokens; in both cases
\* executor.Prefill is not called and no benchmark mark is recorded.
C18_EmptyOrTooLongIsInvalidArgument ==
    (/\ pre.pc = "returned" /\ pre.has_text_data
     /\ (pre.prompt = <<>> \/ Len(pre.prompt) >= TryGetMaxNumTokens(pre.settings))) =>
        /\ pre.ret.status \in InvalidArgumentStatuses
        /\ pre.log = <<>>

\* C19: a Prefill that returns OK was given a non-empty prompt shorter than
\* max_num_tokens, called executor.Prefill exactly once, with the caller's
\* wait_for_completion, then (only if a benchmark is present) marked
\* TimePrefillTurnEnd with the prompt's token count, and returns the prompt's
\* last token id; and a Prefill of such a prompt returns OK unless
\* executor.Prefill or the benchmark mark failed.
C19_PrefillOnceThenMarkThenLastId ==
    pre.pc = "returned" =>
        /\ pre.ret.status = "OK" =>
               /\ pre.prompt # <<>>
               /\ Len(pre.prompt) < TryGetMaxNumTokens(pre.settings)
               /\ pre.log = <<ExecutorPrefill(pre.wait_for_completion)>>
                              \o (IF pre.has_benchmark
                                  THEN <<TimePrefillTurnEnd(Len(pre.prompt))>>
                                  ELSE <<>>)
               /\ pre.ret.value = pre.prompt[Len(pre.prompt)]
        /\ (/\ pre.has_text_data
            /\ pre.prompt # <<>>
            /\ Len(pre.prompt) < TryGetMaxNumTokens(pre.settings)
            /\ pre.ret.status \notin {"ExecutorError", kPrefillTurnEnd}) =>
               pre.ret.status = "OK"

C19_Witness ==
    /\ pre.pc = "returned" /\ pre.ret.status = "OK"
    /\ pre.settings.ok /\ Len(pre.prompt) = MaxNumTokens - 1
    /\ pre.prompt[1] # pre.prompt[Len(pre.prompt)]
    /\ pre.wait_for_completion /\ pre.has_benchmark
    /\ Len(pre.log) = 2

\* C20: if a collaborator call inside a decode iteration fails (executor
\* Decode / DecodeLogits / GetCurrentStep, sampler, tokenizer, detector), no
\* further decode step is started and the entry point returns that
\* collaborator's status unchanged.
C20_FailedCallStatusReturned ==
    run.failed # "none" =>
        /\ run.pc = "returned"
        /\ run.ret = run.failed
        /\ run.started \in {run.num_decode_steps, run.num_decode_steps + 1}

C22_InferredModelType ==
    LET text == mdl.tokenizer.start_turn_text
        audio == mdl.tokenizer.audio_token_ids
    IN  mdl.infer_status \notin {"none", "given"} =>
            IF ~text.ok
            THEN mdl.infer_status = text.value /\ mdl.pc = "returned"
                 /\ mdl.processor = NoProcessor
            ELSE IF text.value # "<start_of_turn>"
            THEN mdl.infer_status = "OK" /\ mdl.model_type.case = "generic_model"
            ELSE IF ~audio.ok
            THEN mdl.infer_status = audio.value /\ mdl.pc = "returned"
                 /\ mdl.processor = NoProcessor
            ELSE /\ mdl.infer_status = "OK"
                 /\ mdl.model_type.case =
                        IF audio.value = <<kStartOfAudioTokenId>>
                        THEN "gemma3n" ELSE "gemma3"

C22_Witness ==
    /\ mdl.infer_status = "OK"
    /\ mdl.tokenizer.start_turn_text.value = "<start_of_turn>"
    /\ mdl.tokenizer.audio_token_ids.ok
    /\ Len(mdl.tokenizer.audio_token_ids.value) = 2
    /\ mdl.tokenizer.audio_token_ids.value[1] = kStartOfAudioTokenId
    /\ mdl.model_type.case = "gemma3"

(***************************************************************************)
(* C23: CreateModelDataProcessor yields a Gemma3 data processor for both   *)
(* the gemma3n and the gemma3 model type, a generic data processor for the *)
(* generic model type, and InvalidArgument for a model type with no case   *)
(* set; a config of a different variant alternative than the selected      *)
(* processor expects is replaced by that processor's default config rather *)
(* than rejected.                                                          *)
(***************************************************************************)
C23_ProcessorOfModelType ==
    LET case == mdl.model_type.case
        expects == IF case = "generic_model" THEN "GenericDataProcessorConfig"
                   ELSE "Gemma3DataProcessorConfig"
    IN  (mdl.pc = "returned" /\ mdl.infer_status \in {"OK", "given"}) =>
            IF case = "not_set"
            THEN mdl.status = kUnsupportedModelType /\ mdl.processor = NoProcessor
            ELSE /\ mdl.status = "OK"
                 /\ mdl.processor.kind =
                        IF case = "generic_model" THEN "GenericDataProcessor"
                        ELSE "Gemma3DataProcessor"
                 /\ mdl.processor.config.alt = expects
                 /\ mdl.config.alt = expects => mdl.processor.config = mdl.config
                 /\ mdl.config.alt # expects => mdl.processor.config.contents = 0

C23_Witness ==
    /\ mdl.pc = "returned"
    /\ mdl.infer_status = "OK"
    /\ mdl.model_type.case = "gemma3n"
    /\ mdl.config = [alt |-> "GenericDataProcessorConfig", contents |-> 1]
    /\ mdl.status = "OK"
    /\ mdl.processor = [kind |-> "Gemma3DataProcessor",
                        config |-> DefaultConfig("Gemma3DataProcessorConfig")]

RolledBack == pt.last.op = "RollBackToStep"

CountBefore == TokenCount(pt.last)

UnchangedByLast == pt.tokens = pt.last.tokens /\ pt.pending = pt.last.pending

C25_AtMostOnePendingToken ==
    /\ TokenCount(pt) - Len(pt.tokens) \in {0, 1}
    /\ TokenCount(pt) - Len(pt.tokens) = 1 <=> pt.pending # kNullptr
    /\ (pt.last.op = "AddPendingInputToken" /\ pt.last.pending # kNullptr) =>
           /\ pt.last.status = kExistingPendingToken
           /\ UnchangedByLast
           /\ TokenCount(pt) = CountBefore

C25_Witness ==
    /\ pt.last.op = "AddPendingInputToken"
    /\ pt.last.pending = TokenData(7)
    /\ pt.last.token = TokenData(9)
    /\ pt.last.status = kExistingPendingToken
    /\ pt.pending = TokenData(7)
    /\ Len(pt.tokens) = 1

StepSucceeds ==
    /\ run.pc = "inflight"
    /\ run'.pc \in {"top", "returned"}
    /\ run'.num_decode_steps = run.num_decode_steps + 1

NewEvents == {run'.events[k] : k \in (Len(run.events) + 1)..Len(run'.events)}

(***************************************************************************)
(* C26: At a step where the merged decode for candidate i (pending ids     *)
(* followed by the step's new ids) is reported incomplete, the candidate's *)
(* step output is empty, the whole merged id vector becomes                *)
(* bpe_pending[i], and the next step decodes bpe_pending[i] followed by    *)
(* its new ids; hence no text is ever delivered from a decode the          *)
(* tokenizer reported incomplete.                                          *)
(*                                                                         *)
(* Over every decode step whose Run succeeds, with ids the merged ids of   *)
(* the step: the step is incomplete for i exactly when ids is; then the    *)
(* output of i is empty, bpe[i] is ids, the deferred queue, the batch text *)
(* of i and the text of i in an event of the step are untouched or empty;  *)
(* and a complete step of a candidate not stopped hands on the text of     *)
(* ids, all of it, to the step output and the deferred queue.              *)
(***************************************************************************)
C26_IncompleteDecodeIsHeldBack ==
    [][StepSucceeds =>
        \A i \in Cands : \E tok \in Tokens :
            LET ids == MergeTokenIds(run.bpe[i], << <<run.started, tok>> >>) IN
            /\ run'.incomplete[i] = IsIncompleteBpeSequence(ids)
            /\ run'.incomplete[i] =>
                   /\ run'.result_text[i] = <<>>
                   /\ run'.bpe[i] = ids
                   /\ run'.pending[i] = run.pending[i]
                   /\ run'.texts = <<>> \/ run'.texts[i] = run.texts[i]
                   /\ \A e \in NewEvents : e.type = "next" => e.texts[i] = <<>>
            /\ (~run'.incomplete[i] /\ ~run'.det[i].found) =>
                   Flatten(run.pending[i]) \o TokenIdsToTexts(ids)
                       = run'.result_text[i] \o Flatten(run'.pending[i])]_vars

C26_Witness ==
    /\ run.pc = "top"
    /\ run.num_decode_steps = 2
    /\ Cardinality(Cands) = 2
    /\ run.incomplete[1] /\ Len(run.bpe[1]) = 2
    /\ run.result_text[1] = <<>>
    /\ ~run.incomplete[2] /\ run.result_text[2] # <<>>

AfterStep ==
    /\ run.pc \notin {"inflight", "aborted"} /\ run.failed = "none"
    /\ run.started > 0 /\ run.num_decode_steps = run.started

OnNextForLastStep == \E k \in 1..Len(run.next_steps) : run.next_steps[k] = run.started

AnyUpdates == \E i \in Cands : run.result_text[i] # <<>>

LoopEndsAtLastStep == run.pc = "returned" /\ run.cause \in {"stops", "cap", "cache"}

(***************************************************************************)
(* C27 (as stated): In streaming mode, on_next is emitted for a decode     *)
(* step if and only if at least one candidate released non-empty text in   *)
(* that step and the loop does not terminate at that step.                 *)
(***************************************************************************)
C27_OnNextIffTextAndLoopGoesOn ==
    (Streaming /\ AfterStep) =>
        (OnNextForLastStep <=> (AnyUpdates /\ ~LoopEndsAtLastStep))

(***************************************************************************)
(* C27 (amended): In streaming mode, on_next is emitted for a decode step  *)
(* if and only if at least one candidate released non-empty text in that   *)
(* step and the detector does not report done for every candidate at that  *)
(* step; it is emitted also at the step at which the benchmark cap or the  *)
(* cache length ends the loop.                                             *)
(***************************************************************************)
C27_OnNextIffTextAndNotAllDone ==
    (Streaming /\ AfterStep) =>
        /\ OnNextForLastStep <=> (AnyUpdates /\ ~AllDone(run.det))
        /\ AllDone(run.det) => ~AnyUpdates
        /\ OnNextForLastStep =>
               \E k \in EventsOfType(run, "next") :
                   /\ \A j \in EventsOfType(run, "next") : j <= k
                   /\ \A i \in Cands :
                          run.events[k].texts[i] = StrReplaceAll(run.result_text[i])

C27_Witness ==
    /\ Streaming /\ AfterStep
    /\ run.pc = "returned" /\ run.cause = "cache" /\ run.ret = "OK"
    /\ run.started = 2
    /\ run.next_steps = <<2>>
    /\ AnyUpdates
    /\ LastEvent(run) = OnError(kKvCache)

(***************************************************************************)
(* C28: Once the detector has reported candidate i's stop as found, every  *)
(* later step of the same run releases the empty string for i, also when   *)
(* the loop keeps running because of a benchmark cap or because other      *)
(* candidates are not done.                                                *)
(*                                                                         *)
(* While i is found the output of the last step for i is empty, and the    *)
(* text delivered for i holds nothing decoded at or after the step at      *)
(* which the stop was found.                                               *)
(***************************************************************************)
C28_NothingReleasedAfterStopFound ==
    \A i \in Cands :
        run.det[i].found =>
            /\ run.found_at[i] \in 1..run.started
            /\ run.result_text[i] = <<>>
            /\ LET text == Delivered(cfg, run, i) IN
               \A k \in 1..Len(text) : text[k][1] < run.found_at[i]

C28_Witness ==
    /\ Cardinality(Cands) = 2
    /\ BenchmarkDecodeTokenCount(cfg) = 0
    /\ run.det[1].found /\ run.found_at[1] = 1
    /\ ~run.det[2].found
    /\ run.num_decode_steps = 2
    /\ run.result_text[1] = <<>> /\ run.result_text[2] # <<>>
    /\ Delivered(cfg, run, 1) = <<>>
    /\ Len(Delivered(cfg, run, 2)) >= 2

Min(a, b) == IF a <= b THEN a ELSE b

(***************************************************************************)
(* C29: At a step with a complete decode for a candidate that is not       *)
(* stopped, with L the detector's partial length after the step: if L > 0  *)
(* the new fragment is appended to the deferred queue and the oldest       *)
(* fragments are released in FIFO order until the queue holds exactly      *)
(* min(previous size + 1, L) fragments; if L = 0 all deferred fragments    *)
(* are released in FIFO order followed by the new fragment and the queue   *)
(* is left empty.                                                          *)
(***************************************************************************)

C29_DeferredQueueIsFifo ==
    (dq.pc = "done" /\ ~dq.out.incomplete /\ ~dq.d.found) =>
        LET fragment == TokenIdsToTexts(dq.ids)
            L == MaxPartialStopTokenLength(dq.d)
            queue == Append(dq.pending, fragment)
            kept == Min(Len(dq.pending) + 1, L)
        IN  IF L > 0
            THEN /\ Len(dq.out.pending) = kept
                 /\ dq.out.pending = SubSeq(queue, Len(queue) - kept + 1, Len(queue))
                 /\ dq.out.text = Flatten(SubSeq(queue, 1, Len(queue) - kept))
            ELSE /\ dq.out.pending = <<>>
                 /\ dq.out.text = Flatten(dq.pending) \o fragment

C29_Witness ==
    /\ dq.pc = "done" /\ ~dq.d.found
    /\ Len(dq.pending) = 3 /\ MaxPartialStopTokenLength(dq.d) = 2
    /\ dq.ids = << <<0, 6>>, <<4, 9>> >>
    /\ dq.out.text = Fragment(1) \o Fragment(2)
    /\ dq.out.pending = << Fragment(3), TokenIdsToTexts(dq.ids) >>

(***************************************************************************)
(* C30: On the external sampling path, the token ids submitted to          *)
(* executor.DecodeLogits at step t+1 are exactly the ids the sampler wrote *)
(* at step t (at step 1, the caller's seed ids), and after the run the     *)
(* caller's decoded_ids buffer holds the ids sampled in the last executed  *)
(* step.                                                                   *)
(*                                                                         *)
(* The last executed step is the last step whose sampling succeeded: a     *)
(* step that fails before or in the sampler has sampled no ids, and a run  *)
(* without such a step leaves the seed ids in the buffer.  What a failing  *)
(* sampler leaves in the buffer is its own matter.                         *)
(***************************************************************************)
C30_SubmittedIdsAreLastSampledIds ==
    /\ \A t \in 1..Len(smp.submitted) :
           smp.submitted[t] = IF t = 1 THEN smp.seed ELSE smp.sampled[t - 1]
    /\ Len(smp.sampled) \in {Len(smp.submitted), Len(smp.submitted) - 1}
    /\ (smp.pc = "returned" /\ smp.ret # "SamplerError") =>
           smp.decoded_ids =
               IF smp.sampled = <<>> THEN smp.seed
               ELSE smp.sampled[Len(smp.sampled)]

C30_Witness ==
    /\ smp.pc = "returned" /\ smp.ret = "OK"
    /\ smp.num_output_candidates = 2
    /\ smp.seed = <<7, 7>>
    /\ smp.sampled = << <<9, 7>>, <<7, 9>>, <<9, 9>> >>
    /\ smp.submitted = << <<7, 7>>, <<9, 7>>, <<7, 9>> >>
    /\ smp.decoded_ids = <<9, 9>>

TurnCalls(name) == {k \in 1..Len(run.turn_log) : run.turn_log[k][1] = name}

(***************************************************************************)
(* C31: With a benchmark timer present, TimeDecodeTurnStart is called      *)
(* exactly once before the first decode step; TimeDecodeTurnEnd is called  *)
(* exactly once, with argument (number of executed decode steps x number   *)
(* of candidates), when the loop ends through a termination condition, and *)
(* is never called when the run ends by cancellation or by a step error.   *)
(***************************************************************************)
C31_TurnMarkedOnceAroundTheLoop ==
    /\ ~cfg.has_benchmark => run.turn_log = <<>>
    /\ cfg.has_benchmark =>
        /\ Cardinality(TurnCalls("TimeDecodeTurnStart")) <= 1
        /\ Cardinality(TurnCalls("TimeDecodeTurnEnd")) <= 1
        /\ run.pc \in {"top", "checked", "inflight"} \/ run.started > 0 =>
               /\ run.turn_log # <<>>
               /\ run.turn_log[1] = <<"TimeDecodeTurnStart", 0>>
        /\ (run.pc = "returned" /\ run.cause \in {"stops", "cap", "cache"}) =>
               run.turn_log =
                   << <<"TimeDecodeTurnStart", 0>>,
                      <<"TimeDecodeTurnEnd",
                        run.num_decode_steps * NumCandidates(cfg)>> >>
        /\ ~(run.pc = "returned" /\ run.cause \in {"stops", "cap", "cache"}) =>
               TurnCalls("TimeDecodeTurnEnd") = {}
        /\ (run.pc = "returned" /\ run.cause \in {"cancel", "error"}) =>
               run.turn_log = << <<"TimeDecodeTurnStart", 0>> >>

C31_Witness ==
    /\ cfg.has_benchmark /\ NumCandidates(cfg) = 2
    /\ run.pc = "returned" /\ run.ret = "OK" /\ run.cause = "cap"
    /\ run.num_decode_steps = 2
    /\ run.turn_log = << <<"TimeDecodeTurnStart", 0>>, <<"TimeDecodeTurnEnd", 4>> >>

(***************************************************************************)
(* C36: The per-step span marks ("executor_decode", "sampling",            *)
(* "executor_decode_and_sample") are recorded on a copy of the             *)
(* BenchmarkInfo taken after TimeDecodeTurnStart; the caller's             *)
(* BenchmarkInfo is changed by a decode run only through                   *)
(* TimeDecodeTurnStart and TimeDecodeTurnEnd.                              *)
(*                                                                         *)
(* The caller's object never gets a span mark; the member of DecodeOneStep *)
(* holds the turn start and no turn end, and, no step having failed, two   *)
(* marks per executed step for each span of the sampling path in use.      *)
(***************************************************************************)
C36_SpanMarksGoToTheCopy ==
    /\ run.marks = NoMarks
    /\ ~cfg.has_benchmark =>
           ~run.benchmark_info_.has_value /\ run.benchmark_info_.marks = NoMarks
    /\ run.benchmark_info_.has_value =>
        /\ cfg.has_benchmark
        /\ run.benchmark_info_.turn_log = << <<"TimeDecodeTurnStart", 0>> >>
        /\ run.failed = "none" =>
               run.benchmark_info_.marks =
                   IF IsCustomSampling(cfg.entry)
                   THEN [executor_decode |-> 2 * run.num_decode_steps,
                         sampling |-> 2 * run.num_decode_steps,
                         executor_decode_and_sample |-> 0]
                   ELSE [executor_decode |-> 0,
                         sampling |-> 0,
                         executor_decode_and_sample |-> 2 * run.num_decode_steps]
        /\ run.failed = "SamplerError" =>
               /\ run.benchmark_info_.marks.executor_decode = 2 * run.started
               /\ run.benchmark_info_.marks.sampling = 2 * run.started - 1

C36_Witness ==
    /\ cfg.has_benchmark /\ IsCustomSampling(cfg.entry)
    /\ run.pc = "returned" /\ run.ret = "OK"
    /\ run.num_decode_steps = 2
    /\ run.marks = NoMarks
    /\ run.benchmark_info_.marks =
           [executor_decode |-> 4, sampling |-> 4, executor_decode_and_sample |-> 0]
    /\ Len(run.turn_log) = 2 /\ Len(run.benchmark_info_.turn_log) = 1

Before == [tokens |-> pt.last.tokens, pending |-> pt.last.pending]

C33_MarkMovesPendingToProcessed ==
    pt.last.op = "MarkPendingInputTokenAsProcessed" =>
        IF Before.pending = kNullptr
        THEN /\ pt.last.status = kNoPendingToken
             /\ pt.tokens = Before.tokens /\ pt.pending = Before.pending
        ELSE /\ pt.last.status = "OK"
             /\ pt.pending = kNullptr
             /\ GetCopyOfTokens(pt) = GetCopyOfTokens(Before)
             /\ TokenCount(pt) = TokenCount(Before)
             /\ GetNextUnprocessedToken(pt).step
                    = GetNextUnprocessedToken(Before).step + 1

C33_Witness ==
    /\ pt.last.op = "MarkPendingInputTokenAsProcessed" /\ pt.last.status = "OK"
    /\ Before.tokens = <<7>> /\ Before.pending = TokenData(9)
    /\ pt.tokens = <<7, 9>> /\ pt.pending = kNullptr

(***************************************************************************)
(* C34: After any sequence of ProcessedTokens operations, TokenCount()     *)
(* equals the length of GetCopyOfTokens(), GetTokenAtStep(s) equals        *)
(* element s of GetCopyOfTokens() for every 0 <= s < TokenCount() and is   *)
(* empty for every other s, and GetNextUnprocessedToken().step equals      *)
(* TokenCount() minus one when a token is pending and TokenCount()         *)
(* otherwise.                                                              *)
(***************************************************************************)
C34_GettersAgree ==
    /\ TokenCount(pt) = Len(GetCopyOfTokens(pt))
    /\ \A s \in -1..(MaxProcessedTokens + 2) :
           GetTokenAtStep(pt, s) =
               IF s >= 0 /\ s < TokenCount(pt)
               THEN [has_value |-> TRUE, value |-> GetCopyOfTokens(pt)[s + 1]]
               ELSE kNullopt
    /\ GetNextUnprocessedToken(pt).step =
           IF pt.pending # kNullptr THEN TokenCount(pt) - 1 ELSE TokenCount(pt)

C34_Witness ==
    /\ pt.tokens = <<7, 9, 7>> /\ pt.pending = TokenData(9)
    /\ TokenCount(pt) = 4
    /\ GetTokenAtStep(pt, 3) = [has_value |-> TRUE, value |-> 9]
    /\ GetNextUnprocessedToken(pt).step = 3
    /\ pt.last.op = "AddPendingInputToken"

(***************************************************************************)
(* C39: ProcessedTokens::AddProcessedTokens called while a token is        *)
(* pending places the added ids before the pending token in                *)
(* GetCopyOfTokens() and raises the pending token's step                   *)
(* (GetNextUnprocessedToken().step) by the number of ids added; the        *)
(* pending token stays last.                                               *)
(***************************************************************************)
C39_AddedIdsGoBeforePendingToken ==
    (pt.last.op = "AddProcessedTokens" /\ Before.pending # kNullptr) =>
        /\ pt.pending = Before.pending
        /\ GetCopyOfTokens(pt) =
               Before.tokens \o pt.last.token_ids \o <<Before.pending.id>>
        /\ GetNextUnprocessedToken(pt).token = Before.pending
        /\ GetNextUnprocessedToken(pt).step =
               GetNextUnprocessedToken(Before).step + Len(pt.last.token_ids)
        /\ GetTokenAtStep(pt, TokenCount(pt) - 1) =
               [has_value |-> TRUE, value |-> Before.pending.id]

C39_Witness ==
    /\ pt.last.op = "AddProcessedTokens"
    /\ Before.tokens = <<7>> /\ Before.pending = TokenData(7)
    /\ pt.last.token_ids = <<9, 9>>
    /\ GetCopyOfTokens(pt) = <<7, 9, 9, 7>>
    /\ GetNextUnprocessedToken(pt).step = 3

(***************************************************************************)
(* C35: A decode run works on its own copy of the StopTokenDetector: the   *)
(* detector object passed by the caller is in the same state after any     *)
(* Decode* call as before it, and every Decode* call starts from the       *)
(* detector state the caller passed in.                                    *)
(*                                                                         *)
(* No step of a call changes the caller's object; the loop is entered with *)
(* the caller's state as the run's detector, and a successful decode step  *)
(* moves the run's detector by the step's token.                           *)
(***************************************************************************)
C35_DetectorIsCopied ==
    [][/\ run'.stop_token_detector = run.stop_token_detector
       /\ (run.pc = "entry" /\ run'.pc = "top") =>
              run'.det = run.stop_token_detector
       /\ StepSucceeds =>
              \A i \in Cands : \E tok \in Tokens :
                  run'.det[i] = ProcessToken(run.det[i], tok)]_vars

C35_Witness ==
    /\ run.pc = "returned" /\ run.ret = "OK"
    /\ Cardinality(Cands) = 2
    /\ run.stop_token_detector[1] = [matched |-> <<8>>, found |-> FALSE]
    /\ run.stop_token_detector[2] = DetectorInit
    /\ run.num_decode_steps = 2
    /\ run.det[1] = [matched |-> <<8, 9>>, found |-> TRUE] /\ run.found_at[1] = 1
    /\ run.det[2].found /\ run.found_at[2] = 2

(***************************************************************************)
(* The text of the token occurrence occ as it is delivered.                *)
(***************************************************************************)
DeliveredTextOf(occ) == StrReplaceAll(TokenText(occ))

(***************************************************************************)
(* C37: For every candidate, the delivered text is the concatenation, in   *)
(* decode order, of a subsequence of the complete decoded fragments of     *)
(* that run: no fragment is delivered twice and no fragment is delivered   *)
(* before a fragment decoded earlier than it.                              *)
(*                                                                         *)
(* In the delivered text no symbol occurs twice, the decode steps of the   *)
(* symbols never decrease, the symbols of one token are delivered          *)
(* together, all of them, and the text of a token whose decode was         *)
(* incomplete is followed at once by the text of the next step's token.    *)
(***************************************************************************)
C37_DeliveredIsOrderedSubsequence ==
    \A i \in Cands :
        LET text == Delivered(cfg, run, i) IN
        /\ \A k, l \in 1..Len(text) :
               k < l => (text[k] # text[l] /\ text[k][1] <= text[l][1])
        /\ \A k \in 1..Len(text) :
               /\ text[k][1] \in 1..run.started
               /\ \E tok \in Tokens : \E m \in 1..k :
                      LET whole == DeliveredTextOf(<<text[k][1], tok>>) IN
                      /\ m + Len(whole) - 1 <= Len(text)
                      /\ k <= m + Len(whole) - 1
                      /\ SubSeq(text, m, m + Len(whole) - 1) = whole
               /\ text[k][2] \in IncompleteTokens =>
                      k < Len(text) /\ text[k + 1][1] = text[k][1] + 1

C37_Witness ==
    /\ run.pc = "returned" /\ run.ret = "OK"
    /\ Cardinality(Cands) = 1
    /\ run.num_decode_steps = 4
    /\ Delivered(cfg, run, 1) =
           DeliveredTextOf(<<1, 8>>) \o DeliveredTextOf(<<2, 6>>)
               \o DeliveredTextOf(<<3, 7>>)

(***************************************************************************)
(* The call has ended; the cancel flag was set before the call began; the  *)
(* flag was set before the loop read it for the first time; the call      *)
(* returned from its entry checks, before the loop.                        *)
(***************************************************************************)
CallEnded == run.pc \in {"returned", "aborted"}

CancelledAtEntry == cancel_mark.set /\ cancel_mark.pc = "entry"

CancelledAtFirstCheck == cancel_mark.set /\ cancel_mark.iterations = 0

ReturnedAtEntry == run.pc = "returned" /\ run.ret \in {kNullObserver, kTurnStart}

TerminationEvaluated == run.cause \in {"stops", "cap", "cache"}

(***************************************************************************)
(* C38 (as stated): Every Decode* call whose cancel flag is not set at     *)
(* entry executes at least one decode step before any termination          *)
(* condition is evaluated, also when the executor's current step already   *)
(* equals or exceeds max_num_tokens at entry.                              *)
(***************************************************************************)
C38_OneStepBeforeTermination ==
    /\ TerminationEvaluated => run.num_decode_steps >= 1
    /\ (CallEnded /\ ~CancelledAtEntry) => run.started >= 1

(***************************************************************************)
(* C38 (amended): Every Decode* call that passes its entry checks and      *)
(* whose cancel flag is not set when the loop first reads it executes at   *)
(* least one decode step before any termination condition is evaluated,    *)
(* also when the executor's current step already equals or exceeds         *)
(* max_num_tokens at entry.                                                *)
(***************************************************************************)
C38_OneStepBeforeTerminationOnceInTheLoop ==
    /\ TerminationEvaluated => run.num_decode_steps >= 1
    /\ (CallEnded /\ ~ReturnedAtEntry /\ ~CancelledAtFirstCheck) =>
           run.started >= 1

C38_Witness ==
    /\ run.entry_step >= TryGetMaxNumTokens(cfg.settings)
    /\ ~cancel_mark.set
    /\ run.pc = "returned" /\ run.ret = "OK" /\ run.cause = "cache"
    /\ run.num_decode_steps = 1 /\ run.started = 1

====
